---------------------------- MODULE Spec2Model ----------------------------
(***************************************************************************)
(* Signal Atlas: the run orchestrator (signal_atlas/pipeline.py), the      *)
(* topic approval it calls (rank.py, policy.py, taxonomy.py), the state    *)
(* store (state.py) and the run metrics (metrics.py), as a state machine.  *)
(*                                                                         *)
(* Encodings.  A title is a record [key, style]: key is the text that      *)
(* normalize_text keeps, style is what it drops (case, punctuation).       *)
(* A path "/a/b/c" is the sequence <<"a","b","c">>, "" is <<>>.            *)
(* Rates are integers in units of 1/10000 (round(x, 4) of the source).     *)
(* A time stamp is the day number of `now`.                                *)
(***************************************************************************)
EXTENDS Integers, Sequences, FiniteSets, TLC

\* ------------------------------------------------------------ constants.py
ALL_VERTICALS == <<"ai_tech", "finance", "lifestyle_pop">>
Verticals == {ALL_VERTICALS[i] : i \in 1..Len(ALL_VERTICALS)}
VERTICAL_FINANCE == "finance"
DEFAULT_PUBLISH_LIMIT == 12
PUBLISH_STAGES == <<12, 18, 24>>
DEFAULT_CATEGORY == "general"
ALL_CATEGORIES == <<"ai", "tech", "finance", "healthcare", "stocks", "startup", "general">>
Categories == {ALL_CATEGORIES[i] : i \in 1..Len(ALL_CATEGORIES)}
SCALE_DAYS == 7
DUPLICATE_RATE_MAX == 500
POLICY_FLAG_RATE_MAX == 100
INDEXED_RATE_MIN == 3500
\* POLICY_DISABLE_RATE = 0.03 as the fraction POLICY_DISABLE_NUM / POLICY_DISABLE_DEN
POLICY_DISABLE_NUM == 3
POLICY_DISABLE_DEN == 100
DEPLOY_FAILURE_DISABLE_COUNT == 3
MAX_PUBLISHED_HISTORY == 500
MAX_DAILY_HISTORY == 120
\* rank.py: the near-duplicate scan reads history_titles[-220:]
NEAR_DUP_WINDOW == 220
\* pipeline.py: for attempt in range(1, 4)
DEPLOY_MAX_ATTEMPTS == 3
\* pipeline.py: max_candidates = max(20, quota * 5)
MIN_CANDIDATES_REQUESTED == 20
CANDIDATES_PER_QUOTA == 5

\* --------------------------------------------------------------- bounds
\* run() calls in one behaviour of Spec, of SpecPolicy and of SpecLimits.
MaxRuns == 4
MaxPolicyRuns == 3
MaxLimitRuns == 2
\* Publish limits tried on _allocate_quota: -MaxLimit..MaxLimit.
MaxLimit == 13
\* Distinct topics the ingestion collaborator can return per vertical.
MaxTopics == 2
\* Length of the padded candidate list (one flagged candidate among many).
PadLen == 33
\* Longest daily history maybe_scale_publish_limit is tried on.
MaxDays == 8
\* run() calls in one behaviour of SpecStages.
MaxStageRuns == 9
\* Topics per vertical in a wide feed.
WideTopics == 5
\* Generations in one behaviour of SpecBudget.
MaxCalls == 3
\* run() calls in one behaviour of SpecSpend.
MaxSpendRuns == 2
\* Longest candidate list approve_topics is tried on.
MaxCandidates == 3
\* run() calls in one behaviour of SpecShared.
MaxSharedRuns == 2
\* history rows beyond the near-duplicate window
MaxBeyond == 2
\* run() calls in one behaviour of SpecPaths.
MaxPathRuns == 3
\* Longest list of existing rows _merge_published_rows is tried on.
MaxExisting == 2
\* run() calls in one behaviour of SpecDates, and the latest date of a run.
MaxDateRuns == 3
MaxDate == 2
\* run() calls in one behaviour of SpecCaps.
MaxCapRuns == 1
\* publish() calls in one behaviour of SpecPublish.
MaxPublishCalls == 2
MaxRaceRuns == 2
MaxDisableRuns == 3
MaxFloorRuns == 8
MaxUnder == 1
RowsPerDay == 50
MaxTrimRuns == 2
MaxLedgerRuns == 2
MaxLedgerDate == 5
MaxMissing == 1

\* -------------------------------------------------------------- generic
Max(a, b) == IF a >= b THEN a ELSE b
Min(a, b) == IF a <= b THEN a ELSE b
Range(s) == {s[i] : i \in 1..Len(s)}
LastN(s, n) == IF Len(s) <= n THEN s ELSE SubSeq(s, Len(s) - n + 1, Len(s))
\* Python's sorted() on a set of vertical names: the names in ALL_VERTICALS are
\* listed in alphabetical order, so the sorted list is ALL_VERTICALS filtered.
Sorted(S) == SelectSeq(ALL_VERTICALS, LAMBDA v : v \in S)

RECURSIVE SumOver(_, _)
SumOver(f, S) ==
    IF S = {} THEN 0
    ELSE LET x == CHOOSE y \in S : TRUE IN f[x] + SumOver(f, S \ {x})

\* --------------------------------------------------------------- utils.py
normalize_text(title) == title.key
dedupe_hash(title) == normalize_text(title)
\* slugify keeps the first 80 characters: a title too long for that carries
\* its slug in a field of its own, and two such titles of different
\* normalized text can share a slug.
slugify(title) == IF "slug" \in DOMAIN title THEN title.slug ELSE title.key

\* -------------------------------------------------------------- policy.py
\* A candidate carries what evaluate_policy and classify_category read of its
\* text: the number of source URLs, the number of words of the normalized
\* title, whether the title is upper case and longer than 15 characters,
\* whether title+snippet contains an exaggeration phrase, where the merged
\* text (normalized title, a space, normalized snippet) contains a
\* finance-advice phrase ("none", inside the "title", inside the "snippet",
\* or "joined": across the space between the two), and the categories whose
\* keyword rule matches title+snippet.
policy_flags(c) ==
    (IF c.sources = 0 THEN {"missing_source"} ELSE {})
    \cup (IF c.words < 4 THEN {"low_substance_title"} ELSE {})
    \cup (IF c.shouting THEN {"shouting_title"} ELSE {})
    \cup (IF c.exaggerated THEN {"exaggerated_claim"} ELSE {})
    \cup (IF c.vertical = VERTICAL_FINANCE /\ c.advice # "none"
          THEN {"finance_investment_advice"} ELSE {})

\* variant: any flag blocks
policy_blocked_any_flag(flags) == flags # {}

policy_blocked(flags) ==
    flags \cap {"missing_source", "finance_investment_advice"} # {}

evaluate_policy(c) ==
    LET flags == policy_flags(c)
        blocked == policy_blocked(flags)
        raw == 10000 - 1200 * Cardinality(flags) - (IF blocked THEN 4000 ELSE 0)
    IN  [score |-> Max(0, Min(10000, raw)), flags |-> flags, blocked |-> blocked]

\* ------------------------------------------------------------ taxonomy.py
\* _RULES in rule order; every vertical allows every category.
RULE_ORDER == <<"stocks", "healthcare", "ai", "tech", "startup", "finance">>

RECURSIVE FirstRule(_, _)
FirstRule(hits, i) ==
    IF i > Len(RULE_ORDER) THEN DEFAULT_CATEGORY
    ELSE IF RULE_ORDER[i] \in Categories /\ RULE_ORDER[i] \in hits THEN RULE_ORDER[i]
    ELSE FirstRule(hits, i + 1)

classify_category(c) == FirstRule(c.rule_hits, 1)

\* ---------------------------------------------------------------- rank.py
\* SequenceMatcher ratio >= 0.9 or trigram cosine >= 0.86 of the normalized
\* titles.  Two titles with the same normalized text have ratio 1.0.  A title
\* may be a rewording of a story: it then carries the story in a field of
\* its own, its normalized text (and so its dedupe hash) differs from that
\* of the other wordings of the story, and it is within the thresholds of
\* each of them.  Titles of different stories are unrelated texts.
story_of(title) ==
    IF "story" \in DOMAIN title THEN title.story ELSE normalize_text(title)

\* variant: only the same normalized text counts as a near duplicate
is_near_duplicate_same_text(title, other_title) ==
    normalize_text(title) = normalize_text(other_title)

is_near_duplicate(title, other_title) == story_of(title) = story_of(other_title)

HistoryTitles(rows) == [i \in 1..Len(rows) |-> rows[i].title]
HistoryHashes(rows) == {rows[i].dedupe_hash : i \in 1..Len(rows)}

ApprovedTopic(c, d_hash, policy) ==
    [title |-> c.title, vertical |-> c.vertical, dedupe_hash |-> d_hash,
     category |-> classify_category(c), policy_flags |-> policy.flags]

\* ------------------------------------------------------------- variants
\* A duplicate is policy-evaluated before it is dropped.
RECURSIVE ApproveLoop_evaluating(_, _, _, _)
ApproveLoop_evaluating(cands, i, acc, max_count) ==
    IF i > Len(cands) THEN acc
    ELSE
      LET c == cands[i]
          d_hash == dedupe_hash(c.title)
          window == LastN(acc.titles, NEAR_DUP_WINDOW)
          duplicate_hit ==
              \/ d_hash \in acc.hashes
              \/ \E k \in 1..Len(window) : is_near_duplicate(c.title, window[k])
          policy == evaluate_policy(c)
          flagged == IF policy.flags # {} THEN 1 ELSE 0
      IN  IF duplicate_hit
          THEN ApproveLoop_evaluating(cands, i + 1,
                   [acc EXCEPT !.duplicate_count = @ + 1,
                               !.policy_flag_count = @ + flagged], max_count)
          ELSE IF policy.blocked
          THEN ApproveLoop_evaluating(cands, i + 1,
                   [acc EXCEPT !.policy_flag_count = @ + flagged,
                               !.blocked_count = @ + 1], max_count)
          ELSE
            LET next == [acc EXCEPT
                           !.policy_flag_count = @ + flagged,
                           !.approved = Append(@, ApprovedTopic(c, d_hash, policy)),
                           !.titles = Append(@, c.title),
                           !.hashes = @ \cup {d_hash}]
            IN  IF Len(next.approved) >= max_count THEN next
                ELSE ApproveLoop_evaluating(cands, i + 1, next, max_count)

\* The body of the for loop of approve_topics from candidate i on; acc holds
\* the loop's variables.
RECURSIVE ApproveLoop(_, _, _, _)
ApproveLoop(cands, i, acc, max_count) ==
    IF i > Len(cands) THEN acc
    ELSE
      LET c == cands[i]
          d_hash == dedupe_hash(c.title)
          window == LastN(acc.titles, NEAR_DUP_WINDOW)
          duplicate_hit ==
              \/ d_hash \in acc.hashes
              \/ \E k \in 1..Len(window) : is_near_duplicate(c.title, window[k])
          policy == evaluate_policy(c)
          flagged == IF policy.flags # {} THEN 1 ELSE 0
      IN  IF duplicate_hit
          THEN ApproveLoop(cands, i + 1,
                   [acc EXCEPT !.duplicate_count = @ + 1], max_count)
          ELSE IF policy.blocked
          THEN ApproveLoop(cands, i + 1,
                   [acc EXCEPT !.policy_flag_count = @ + flagged,
                               !.blocked_count = @ + 1], max_count)
          ELSE
            LET next == [acc EXCEPT
                           !.policy_flag_count = @ + flagged,
                           !.approved = Append(@, ApprovedTopic(c, d_hash, policy)),
                           !.titles = Append(@, c.title),
                           !.hashes = @ \cup {d_hash}]
            IN  IF Len(next.approved) >= max_count THEN next
                ELSE ApproveLoop(cands, i + 1, next, max_count)

\* The policy rate is checked before anything is handed to generation: a
\* batch at the disable rate approves nothing.
approve_topics_rate_first(candidates, history_rows, max_count) ==
    LET acc0 == [titles |-> HistoryTitles(history_rows),
                 hashes |-> HistoryHashes(history_rows),
                 approved |-> <<>>, duplicate_count |-> 0,
                 policy_flag_count |-> 0, blocked_count |-> 0]
        acc == ApproveLoop(candidates, 1, acc0, max_count)
        hit == acc.policy_flag_count * POLICY_DISABLE_DEN
                 >= POLICY_DISABLE_NUM * Max(1, Len(candidates))
    IN  [approved |-> IF hit THEN <<>> ELSE acc.approved,
         stats |-> [candidate_count |-> Len(candidates),
                    duplicate_count |-> acc.duplicate_count,
                    policy_flag_count |-> acc.policy_flag_count,
                    blocked_count |-> acc.blocked_count]]

approve_topics(candidates, history_rows, max_count) ==
    LET acc0 == [titles |-> HistoryTitles(history_rows),
                 hashes |-> HistoryHashes(history_rows),
                 approved |-> <<>>, duplicate_count |-> 0,
                 policy_flag_count |-> 0, blocked_count |-> 0]
        acc == ApproveLoop(candidates, 1, acc0, max_count)
    IN  [approved |-> acc.approved,
         stats |-> [candidate_count |-> Len(candidates),
                    duplicate_count |-> acc.duplicate_count,
                    policy_flag_count |-> acc.policy_flag_count,
                    blocked_count |-> acc.blocked_count]]

\* ------------------------------------------------------------- variants
\* Each operator below is one of the operators of the model with a single
\* slip in it; the properties at the end of the module are meant to tell the
\* operator from its variant.
resolve_raises_never(vertical) == FALSE

allocate_quota_no_floor(verticals, publish_limit) ==
    IF Len(verticals) = 0 THEN [v \in {} |-> 0]
    ELSE LET base == publish_limit \div Len(verticals)
             remainder == publish_limit % Len(verticals)
         IN  [v \in {verticals[i] : i \in 1..Len(verticals)} |->
                base + (IF (CHOOSE i \in 1..Len(verticals) : verticals[i] = v) - 1
                             < remainder THEN 1 ELSE 0)]

\* The limit jumps to the last stage.
NextStage_last(current) == PUBLISH_STAGES[Len(PUBLISH_STAGES)]

\* Each published brief adds 0.008 to the estimate.
estimate_indexed_rate_generous(candidate_count, publish_count, duplicate_count, policy_flag_count) ==
    IF candidate_count <= 0 THEN 0
    ELSE LET den == Max(1, candidate_count)
             score == (2600 + 80 * publish_count) * den
                          - 5500 * duplicate_count - 4500 * policy_flag_count
         IN  Max(0, Min(9500 * den, score)) \div den

\* A rate equal to its ceiling passes.
WindowQualifies_lenient(window) ==
    \A i \in 1..Len(window) :
        /\ ~(window[i].duplicate_rate > DUPLICATE_RATE_MAX)
        /\ ~(window[i].policy_flag_rate > POLICY_FLAG_RATE_MAX)
        /\ ~(window[i].indexed_rate < INDEXED_RATE_MIN)

\* ------------------------------------------- pipeline.py: quota and scope
\* _resolve_verticals raises ValueError for a name that is neither "all" nor
\* a vertical.
resolve_raises(vertical) == vertical # "all" /\ vertical \notin Verticals

resolve_verticals(vertical) ==
    IF vertical = "all" THEN ALL_VERTICALS ELSE <<vertical>>

IndexOf(s, x) == CHOOSE i \in 1..Len(s) : s[i] = x

\* The dict _allocate_quota returns, as a function on the listed verticals.
allocate_quota(verticals, publish_limit) ==
    IF Len(verticals) = 0 THEN [v \in {} |-> 0]
    ELSE IF Len(verticals) = 1 THEN [v \in {verticals[1]} |-> Max(1, publish_limit)]
    ELSE
      LET total == Max(Len(verticals), publish_limit)
          base == total \div Len(verticals)
          remainder == total % Len(verticals)
      IN  [v \in Range(verticals) |->
             base + (IF IndexOf(verticals, v) - 1 < remainder THEN 1 ELSE 0)]

\* publish_limit = int(max_publish or state.get("publish_limit") or DEFAULT):
\* `or` skips None and 0.  max_publish is <<>> for None and <<n>> for the integer n.
requested_publish_limit(max_publish, state_limit) ==
    IF max_publish # <<>> /\ max_publish[1] # 0 THEN max_publish[1]
    ELSE IF state_limit # 0 THEN state_limit
    ELSE DEFAULT_PUBLISH_LIMIT

count_generated_by_vertical(generated) ==
    [v \in {generated[i].topic.vertical : i \in 1..Len(generated)} |->
        Cardinality({i \in 1..Len(generated) : generated[i].topic.vertical = v})]

\* ---------------------------------------------- pipeline.py: merged rows
RowIndex(rows, path) ==
    IF \E i \in 1..Len(rows) : rows[i].path = path
    THEN CHOOSE i \in 1..Len(rows) : rows[i].path = path
    ELSE 0

\* A dict keyed by path keeps the position of a key that is assigned again.
\* A list in which every row has a path and no two rows have the same one
\* loads as it is.
RECURSIVE LoadByPath(_, _, _)
LoadByPath(rows, i, merged) ==
    IF /\ i = 1
       /\ merged = <<>>
       /\ \A k \in 1..Len(rows) : rows[k].path # <<>>
       /\ Cardinality({rows[k].path : k \in 1..Len(rows)}) = Len(rows)
      THEN rows
    ELSE IF i > Len(rows) THEN merged
    ELSE LET row == rows[i]
             at == RowIndex(merged, row.path)
         IN  IF row.path = <<>> THEN LoadByPath(rows, i + 1, merged)
             ELSE IF at = 0 THEN LoadByPath(rows, i + 1, Append(merged, row))
             ELSE LoadByPath(rows, i + 1, [merged EXCEPT ![at] = row])

\* variant: a legacy path that is already in the list is listed again
RECURSIVE DedupLegacy_keeping_repeats(_, _, _, _)
DedupLegacy_keeping_repeats(legacy, i, path, out) ==
    IF i > Len(legacy) THEN out
    ELSE LET one == legacy[i]
         IN  IF one # <<>> /\ one # path
             THEN DedupLegacy_keeping_repeats(legacy, i + 1, path, Append(out, one))
             ELSE DedupLegacy_keeping_repeats(legacy, i + 1, path, out)

RECURSIVE DedupLegacy(_, _, _, _)
DedupLegacy(legacy, i, path, out) ==
    IF i > Len(legacy) THEN out
    ELSE LET one == legacy[i]
         IN  IF one # <<>> /\ one \notin Range(out) /\ one # path
             THEN DedupLegacy(legacy, i + 1, path, Append(out, one))
             ELSE DedupLegacy(legacy, i + 1, path, out)

\* variant: the row that is replaced takes its legacy paths with it
RECURSIVE MergeNew_dropping_prior(_, _, _)
MergeNew_dropping_prior(rows, i, merged) ==
    IF i > Len(rows) THEN merged
    ELSE LET row == rows[i]
             at == RowIndex(merged, row.path)
             incoming == [row EXCEPT !.legacy_paths =
                            DedupLegacy(row.legacy_paths, 1, row.path, <<>>)]
         IN  IF row.path = <<>> THEN MergeNew_dropping_prior(rows, i + 1, merged)
             ELSE IF at = 0 THEN MergeNew_dropping_prior(rows, i + 1, Append(merged, incoming))
             ELSE MergeNew_dropping_prior(rows, i + 1, [merged EXCEPT ![at] = incoming])

RECURSIVE MergeNew(_, _, _)
MergeNew(rows, i, merged) ==
    IF i > Len(rows) THEN merged
    ELSE LET row == rows[i]
             at == RowIndex(merged, row.path)
             prior_legacy == IF at = 0 THEN <<>> ELSE merged[at].legacy_paths
             incoming == [row EXCEPT !.legacy_paths =
                            DedupLegacy(prior_legacy \o row.legacy_paths, 1, row.path, <<>>)]
         IN  IF row.path = <<>> THEN MergeNew(rows, i + 1, merged)
             ELSE IF at = 0 THEN MergeNew(rows, i + 1, Append(merged, incoming))
             ELSE MergeNew(rows, i + 1, [merged EXCEPT ![at] = incoming])

\* list.sort(key=published_at, reverse=True): stable, newest first: the rows
\* of the latest of the dates in the order they have in the list, then the
\* rows of the other dates sorted the same way.
RECURSIVE SortNewestFirst(_, _)
SortNewestFirst(rows, dates) ==
    IF dates = {} THEN <<>>
    ELSE LET latest == CHOOSE d \in dates : \A e \in dates : e <= d
         IN  SelectSeq(rows, LAMBDA r : r.published_at = latest)
               \o SortNewestFirst(rows, dates \ {latest})

merge_published_rows(existing_rows, new_rows) ==
    LET merged == MergeNew(new_rows, 1, LoadByPath(existing_rows, 1, <<>>))
    IN  SortNewestFirst(merged, {merged[i].published_at : i \in 1..Len(merged)})


\* --------------------------------------- pipeline.py: load-time migration
LegacyCategory(c) ==
    CASE c = "ai-models" -> "ai"
      [] c \in {"developer-tools", "enterprise-adoption",
                "streaming-entertainment", "social-platforms"} -> "tech"
      [] c \in {"startups-funding", "creator-economy"} -> "startup"
      [] c \in {"markets-macro", "fintech-payments", "personal-finance",
                "policy-regulation"} -> "finance"
      [] c = "company-earnings" -> "stocks"
      [] c \in {"consumer-trends", "fandom-culture"} -> DEFAULT_CATEGORY
      [] OTHER -> c

StoryPath(category, last) == <<"stories", category, last>>

\* One row of _migrate_published_category; <<>> when the row is dropped.
MigrateRow(row) ==
    LET path == row.path
        vertical == IF row.vertical \notin Verticals /\ path # <<>>
                    THEN path[1] ELSE row.vertical
        mapped == LegacyCategory(row.category)
        category == IF mapped \in Categories THEN mapped ELSE DEFAULT_CATEGORY
        last == IF path = <<>> THEN "" ELSE path[Len(path)]
        normalized == IF Len(path) >= 2 THEN LegacyCategory(path[2]) ELSE ""
        from_path == IF normalized \in Categories THEN normalized ELSE category
        by_slug == IF row.slug # "" THEN StoryPath(category, row.slug) ELSE path
        new ==
          IF Len(path) >= 3 /\ path[1] = "stories"
            THEN [category |-> from_path, path |-> StoryPath(from_path, last),
                  old_path |-> <<>>]
          ELSE IF Len(path) >= 3 /\ path[1] = "category"
            THEN [category |-> from_path, path |-> StoryPath(from_path, last),
                  old_path |-> <<"category", from_path, last>>]
          ELSE IF Len(path) >= 3 /\ path[1] \in Verticals
            THEN [category |-> from_path, path |-> StoryPath(from_path, last),
                  old_path |-> <<path[1], path[2], last>>]
          ELSE IF Len(path) = 2 /\ path[1] \in Verticals
            THEN [category |-> category, path |-> StoryPath(category, path[2]),
                  old_path |-> path]
          ELSE [category |-> category, path |-> by_slug, old_path |-> <<>>]
        old_path == IF path # <<>> /\ path # new.path THEN path ELSE new.old_path
        legacy_paths ==
          IF old_path # <<>> /\ old_path \notin Range(row.legacy_paths)
             /\ old_path # new.path
          THEN Append(row.legacy_paths, old_path) ELSE row.legacy_paths
    IN  IF vertical \notin Verticals THEN <<>>
        ELSE <<[row EXCEPT !.vertical = vertical, !.category = new.category,
                           !.path = new.path, !.legacy_paths = legacy_paths]>>

\* The rows that are kept, each migrated, in the order of the list.
MigrateRows(rows) ==
    LET kept == SelectSeq(rows, LAMBDA r : MigrateRow(r) # <<>>)
    IN  [k \in 1..Len(kept) |-> MigrateRow(kept[k])[1]]

migrate_published_category(state) ==
    IF state.published = <<>> THEN state
    ELSE [state EXCEPT !.published = MigrateRows(state.published)]

\* --------------------------------------------------------------- state.py
default_state(now) ==
    [publish_limit |-> DEFAULT_PUBLISH_LIMIT,
     disabled_verticals |-> <<>>,
     vertical_deploy_failures |-> [v \in Verticals |-> 0],
     published |-> <<>>,
     daily_history |-> <<>>,
     budget |-> <<>>,
     budget_usage |-> <<>>,
     updated_at |-> now]

\* The state file is <<>> while it does not exist and <<blob>> once written.
load_state(file, now) ==
    IF file = <<>> THEN default_state(now)
    ELSE [file[1] EXCEPT
            !.publish_limit = IF @ # 0 THEN @ ELSE DEFAULT_PUBLISH_LIMIT,
            !.updated_at = now]

upsert_daily_history(state, entry) ==
    LET rows == state.daily_history
        put == IF rows # <<>> /\ rows[Len(rows)].date = entry.date
               THEN [rows EXCEPT ![Len(rows)] = entry]
               ELSE Append(rows, entry)
    IN  [state EXCEPT !.daily_history = LastN(put, MAX_DAILY_HISTORY)]

\* An append that opens the log for writing: the earlier lines are gone.
append_jsonl_truncating(file, payload) == <<payload>>

\* utils.py 52-56: the log is opened in mode "a" and one line is written.
append_jsonl(file, payload) == Append(file, payload)

\* A save that reads the file again and keeps the daily-history entries
\* another process wrote to it since this one loaded.
save_state_rereading(file, state) ==
    IF file = <<>> \/ state.daily_history = <<>> THEN <<state>>
    ELSE <<upsert_daily_history(
             [state EXCEPT !.daily_history = file[1].daily_history],
             state.daily_history[Len(state.daily_history)])>>

\* save_state hands the whole state to write_json, which writes a temporary
\* file and renames it over the state file: what the file held is not read.
save_state(file, state) == <<state>>

\* A trim that keeps the head of the list.
trim_published_history_head(state) ==
    IF Len(state.published) > MAX_PUBLISHED_HISTORY
    THEN [state EXCEPT !.published = SubSeq(@, 1, MAX_PUBLISHED_HISTORY)]
    ELSE state

\* state.py 80-83: rows[-MAX_PUBLISHED_HISTORY:]
trim_published_history(state) ==
    IF Len(state.published) > MAX_PUBLISHED_HISTORY
    THEN [state EXCEPT !.published = LastN(@, MAX_PUBLISHED_HISTORY)]
    ELSE state

NextStage(current) ==
    LET above == {i \in 1..Len(PUBLISH_STAGES) : PUBLISH_STAGES[i] > current}
    IN  IF above = {} THEN current
        ELSE PUBLISH_STAGES[CHOOSE i \in above : \A j \in above : i <= j]

WindowQualifies(window) ==
    \A i \in 1..Len(window) :
        /\ ~(window[i].duplicate_rate >= DUPLICATE_RATE_MAX)
        /\ ~(window[i].policy_flag_rate >= POLICY_FLAG_RATE_MAX)
        /\ ~(window[i].indexed_rate < INDEXED_RATE_MIN)

\* Returns the state and the promotion signal (<<>> for None).
maybe_scale_publish_limit(state) ==
    LET current == IF state.publish_limit # 0 THEN state.publish_limit
                   ELSE DEFAULT_PUBLISH_LIMIT
        history == state.daily_history
        next_stage == NextStage(current)
    IN  IF current >= PUBLISH_STAGES[Len(PUBLISH_STAGES)]
          THEN [state |-> state, scaled_to |-> <<>>]
        ELSE IF Len(history) < SCALE_DAYS
          THEN [state |-> state, scaled_to |-> <<>>]
        ELSE IF ~WindowQualifies(LastN(history, SCALE_DAYS))
          THEN [state |-> state, scaled_to |-> <<>>]
        ELSE IF next_stage # current
          THEN [state |-> [state EXCEPT !.publish_limit = next_stage],
                scaled_to |-> <<next_stage>>]
        ELSE [state |-> state, scaled_to |-> <<>>]

\* ------------------------------------------------------------- metrics.py
\* round(n / d, 0) of the source's round(): half to even, n >= 0, d > 0.
RoundDiv(n, d) ==
    LET q == n \div d
        r == n % d
    IN  IF 2 * r > d THEN q + 1
        ELSE IF 2 * r = d THEN q + (q % 2)
        ELSE q

\* 0.26 + 0.007 * publish_count - (0.55 * duplicate_rate + 0.45 * policy_flag_rate),
\* clamped to [0, 0.95], in units of 1/10000 over the denominator of the rates.
estimate_indexed_rate(candidate_count, publish_count, duplicate_count, policy_flag_count) ==
    LET den == Max(1, candidate_count)
        score == (2600 + 70 * publish_count) * den
                     - 5500 * duplicate_count - 4500 * policy_flag_count
    IN  IF candidate_count <= 0 THEN 0
        ELSE RoundDiv(Max(0, Min(9500 * den, score)), den)

build_ops_metrics(timestamp, candidate_count, duplicate_count, policy_flag_count, publish_count) ==
    LET denominator == Max(1, candidate_count)
    IN  [timestamp |-> timestamp,
         indexed_rate |-> estimate_indexed_rate(candidate_count, publish_count,
                                                duplicate_count, policy_flag_count),
         duplicate_rate |-> RoundDiv(10000 * duplicate_count, denominator),
         policy_flag_rate |-> RoundDiv(10000 * policy_flag_count, denominator),
         publish_count |-> publish_count,
         candidate_count |-> candidate_count]


\* --------------------------------------------------- pipeline.py: budget
\* Money is counted in 1/100 KRW (payload costs are rounded to 2 decimals);
\* limit_krw is whole KRW.
BUDGET_ALERT_PERCENT == 85
PREMIUM_EST_KRW == 220
BALANCED_EST_KRW == 120
DEFAULT_MONTHLY_BUDGET_KRW == 200000
BUDGET_USAGE_MONTHS == 24

\* now.strftime("%Y-%m"): the month of day number `now`.
DaysPerMonth == 2
MonthOf(now) == (now - 1) \div DaysPerMonth

\* The ledger of another month is kept, with its month set to the run's.
load_budget_state_carrying(state, now, env_limit) ==
    LET month == MonthOf(now)
        fresh == [month |-> month, spent_krw |-> 0, limit_krw |-> Max(1, env_limit),
                  last_engine |-> "gemini", last_quality_tier |-> "premium",
                  capped |-> FALSE]
        budget == IF state.budget = <<>> THEN fresh
                  ELSE [state.budget[1] EXCEPT !.month = month]
    IN  [budget EXCEPT !.limit_krw = Max(1, IF @ # 0 THEN @ ELSE DEFAULT_MONTHLY_BUDGET_KRW)]

\* pipeline.py 367-381
load_budget_state(state, now, env_limit) ==
    LET month == MonthOf(now)
        fresh == [month |-> month, spent_krw |-> 0, limit_krw |-> Max(1, env_limit),
                  last_engine |-> "gemini", last_quality_tier |-> "premium",
                  capped |-> FALSE]
        budget == IF state.budget = <<>> \/ state.budget[1].month # month
                  THEN fresh ELSE state.budget[1]
    IN  [budget EXCEPT !.limit_krw = Max(1, IF @ # 0 THEN @ ELSE DEFAULT_MONTHLY_BUDGET_KRW)]

KeepLatest(usage) ==
    IF Cardinality(DOMAIN usage) > BUDGET_USAGE_MONTHS
    THEN LET keep == {k \in DOMAIN usage :
                        Cardinality({j \in DOMAIN usage : j > k}) < BUDGET_USAGE_MONTHS}
         IN  [k \in keep |-> usage[k]]
    ELSE usage

save_budget_state(state, budget) ==
    LET limit_krw == Max(1, IF budget.limit_krw # 0 THEN budget.limit_krw
                            ELSE DEFAULT_MONTHLY_BUDGET_KRW)
        saved == [budget EXCEPT !.limit_krw = limit_krw,
                                !.capped = budget.spent_krw >= limit_krw * 100]
        usage == [k \in DOMAIN state.budget_usage \cup {budget.month} |->
                     IF k = budget.month THEN budget.spent_krw
                     ELSE state.budget_usage[k]]
    IN  [state EXCEPT !.budget = <<saved>>, !.budget_usage = KeepLatest(usage)]

\* ------------------------------------------------------------- variants
\* The template is forced only once nothing remains.
choose_generation_mode_until_spent(requested_engine, requested_quality, budget) ==
    LET remaining == Max(1, budget.limit_krw) * 100 - budget.spent_krw
    IN  IF requested_engine = "template" \/ remaining <= 0
        THEN [engine |-> "template", quality |-> "balanced",
              budget |-> [budget EXCEPT !.last_engine = "template",
                                        !.last_quality_tier = "balanced"]]
        ELSE [engine |-> "gemini", quality |-> "balanced",
              budget |-> [budget EXCEPT !.last_engine = "gemini",
                                        !.last_quality_tier = "balanced"]]

\* No downgrade at the alert ratio.
choose_generation_mode_no_alert(requested_engine, requested_quality, budget) ==
    LET remaining == Max(1, budget.limit_krw) * 100 - budget.spent_krw
        quality == IF requested_quality = "premium" /\ remaining >= PREMIUM_EST_KRW * 100
                   THEN "premium" ELSE "balanced"
    IN  IF requested_engine = "template" \/ remaining < BALANCED_EST_KRW * 100
        THEN [engine |-> "template", quality |-> "balanced",
              budget |-> [budget EXCEPT !.last_engine = "template",
                                        !.last_quality_tier = "balanced"]]
        ELSE [engine |-> "gemini", quality |-> quality,
              budget |-> [budget EXCEPT !.last_engine = "gemini",
                                        !.last_quality_tier = quality]]

\* The budget is never consulted.
choose_generation_mode_unbudgeted(requested_engine, requested_quality, budget) ==
    [engine |-> requested_engine,
     quality |-> IF requested_engine = "template" THEN "balanced" ELSE requested_quality,
     budget |-> [budget EXCEPT !.last_engine = requested_engine]]

\* The cost is added twice.
apply_generation_cost_twice(budget, payload) ==
    IF payload.generation_engine # "gemini" THEN budget
    ELSE [budget EXCEPT !.spent_krw = @ + 2 * Max(0, payload.generation_cost_krw)]

\* A fallback to the template is charged the balanced estimate.
apply_generation_cost_charging_fallback(budget, payload) ==
    IF payload.generation_engine = "template-fallback"
      THEN [budget EXCEPT !.spent_krw = @ + BALANCED_EST_KRW * 100]
    ELSE IF payload.generation_engine # "gemini" THEN budget
    ELSE [budget EXCEPT !.spent_krw = @ + Max(0, payload.generation_cost_krw)]

\* Returns the effective engine and tier and the budget with last_* set.
choose_generation_mode(requested_engine, requested_quality, budget) ==
    LET spent == budget.spent_krw
        limit == Max(1, IF budget.limit_krw # 0 THEN budget.limit_krw ELSE 1) * 100
        remaining == limit - spent
        template == [engine |-> "template", quality |-> "balanced",
                     budget |-> [budget EXCEPT !.last_engine = "template",
                                               !.last_quality_tier = "balanced"]]
        alerted == IF spent * 100 >= limit * BUDGET_ALERT_PERCENT
                      /\ requested_quality = "premium"
                   THEN "balanced" ELSE requested_quality
        est_cost == (IF alerted = "premium" THEN PREMIUM_EST_KRW ELSE BALANCED_EST_KRW) * 100
        quality == IF remaining < est_cost /\ alerted = "premium"
                      /\ remaining >= BALANCED_EST_KRW * 100
                   THEN "balanced" ELSE alerted
    IN  IF requested_engine = "template" THEN template
        ELSE IF remaining <= 0 THEN template
        ELSE IF remaining < est_cost
                /\ ~(alerted = "premium" /\ remaining >= BALANCED_EST_KRW * 100)
                /\ remaining < BALANCED_EST_KRW * 100 THEN template
        ELSE [engine |-> "gemini", quality |-> quality,
              budget |-> [budget EXCEPT !.last_engine = "gemini",
                                        !.last_quality_tier = quality]]

apply_generation_cost_to_budget(budget, payload) ==
    IF payload.generation_engine # "gemini" THEN budget
    ELSE [budget EXCEPT !.spent_krw = @ + Max(0, payload.generation_cost_krw)]

\* ---------------------------------------------------- content.py (contract)
\* build_generated_brief: the generation collaborator either answers, at a
\* cost, or fails and the template is used (engine tag template-fallback,
\* cost 0).  `gen` is the collaborator's behaviour during the run:
\* [up |-> BOOLEAN, premium |-> cost, balanced |-> cost] in 1/100 KRW.
build_generated_brief(topic, engine, quality, gen) ==
    LET engine_used == IF engine = "gemini"
                       THEN (IF gen.up THEN "gemini" ELSE "template-fallback")
                       ELSE "template"
        cost == IF engine_used = "gemini"
                THEN (IF quality = "premium" THEN gen.premium ELSE gen.balanced)
                ELSE 0
    IN  [topic |-> topic, slug |-> slugify(topic.title),
         payload |-> [generation_engine |-> engine_used,
                      generation_cost_krw |-> cost, quality_tier |-> quality]]

\* variant: a topic whose generation call fails yields no brief
RECURSIVE GenerateLoop_dropping_failed(_, _, _, _)
GenerateLoop_dropping_failed(approved, i, acc, req) ==
    IF i > Len(approved) THEN acc
    ELSE LET mode == choose_generation_mode(req.engine, req.quality, acc.budget)
             brief == build_generated_brief(approved[i], mode.engine, mode.quality, req.gen)
         IN  GenerateLoop_dropping_failed(approved, i + 1,
                 [generated |-> IF brief.payload.generation_engine = "template-fallback"
                                THEN acc.generated ELSE Append(acc.generated, brief),
                  budget |-> apply_generation_cost_to_budget(mode.budget, brief.payload)],
                 req)

\* The inner loop of run(): one brief per approved topic.
RECURSIVE GenerateLoop(_, _, _, _)
GenerateLoop(approved, i, acc, req) ==
    IF i > Len(approved) THEN acc
    ELSE LET mode == choose_generation_mode(req.engine, req.quality, acc.budget)
             brief == build_generated_brief(approved[i], mode.engine, mode.quality, req.gen)
         IN  GenerateLoop(approved, i + 1,
                 [generated |-> Append(acc.generated, brief),
                  budget |-> apply_generation_cost_to_budget(mode.budget, brief.payload)],
                 req)

\* --------------------------------------------------- publish.py (contract)
\* StaticSitePublisher.publish returns one PublishedBrief per generated brief.
PublishedBrief(brief, now) ==
    [slug |-> brief.slug, vertical |-> brief.topic.vertical,
     title |-> brief.topic.title, published_at |-> now,
     dedupe_hash |-> brief.topic.dedupe_hash,
     path |-> <<"category", brief.topic.category, brief.slug>>,
     category |-> brief.topic.category, legacy_paths |-> <<>>]

publish_rows(generated_briefs, now) ==
    [i \in 1..Len(generated_briefs) |-> PublishedBrief(generated_briefs[i], now)]


\* ------------------------------------------------ ingest.py (contract)
\* Ingestor.collect(vertical, now, max_candidates) returns at most
\* max_candidates candidates of that vertical.  What it finds is the
\* environment's choice among these lists:
\*   fresh    MaxTopics clean candidates, one per topic
\*   flagged  the first topic with a three-word title, then the others clean
\*   advice   the first topic with a finance-advice phrase, then the others clean
\*   blocked  the first topic without a source URL, nothing else
\*   padded   the first topic with a three-word title, then PadLen restyled
\*            copies of it
\*   wide     WideTopics clean candidates, one per topic
\*   shared   a story that every vertical's feed carries under the same
\*            title, then the first topic and a restyled copy of it
\*   long_a   one clean candidate whose title is longer than a slug
\*   long_b   one clean candidate of another such title, unrelated to the
\*            first but for the 80 characters its slug keeps
TopicKeys ==
    [v \in Verticals |->
       CASE v = "ai_tech" -> <<"at-1", "at-2", "at-3", "at-4", "at-5", "at-6">>
         [] v = "finance" -> <<"fi-1", "fi-2", "fi-3", "fi-4", "fi-5", "fi-6">>
         [] OTHER -> <<"lp-1", "lp-2", "lp-3", "lp-4", "lp-5", "lp-6">>]

Clean(v, k, style) ==
    [title |-> [key |-> TopicKeys[v][k], style |-> style], vertical |-> v,
     sources |-> 1, words |-> 5, shouting |-> FALSE, exaggerated |-> FALSE,
     advice |-> "none", rule_hits |-> {}]

IngestKinds == {"fresh", "flagged", "advice", "blocked", "padded"}

Found(v, kind) ==
    LET rest == [k \in 1..(MaxTopics - 1) |-> Clean(v, k + 1, 0)]
    IN  CASE kind = "fresh" -> <<Clean(v, 1, 0)>> \o rest
          [] kind = "flagged" -> <<[Clean(v, 1, 0) EXCEPT !.words = 3]>> \o rest
          [] kind = "advice" -> <<[Clean(v, 1, 0) EXCEPT !.advice = "title"]>> \o rest
          [] kind = "blocked" -> <<[Clean(v, 1, 0) EXCEPT !.sources = 0]>>
          [] kind = "wide" -> [k \in 1..WideTopics |-> Clean(v, k, 0)]
          [] kind = "long_a" ->
               <<[Clean(v, 1, 0) EXCEPT
                    !.title = [key |-> "long-a", style |-> 0, slug |-> "long"]]>>
          [] kind = "long_b" ->
               <<[Clean(v, 1, 0) EXCEPT
                    !.title = [key |-> "long-b", style |-> 0, slug |-> "long"]]>>
          [] kind = "shared" -> <<[Clean(v, 1, 0) EXCEPT !.title.key = "wire-1"],
                                  Clean(v, 1, 0), Clean(v, 1, 1)>>
          [] OTHER -> <<[Clean(v, 1, 0) EXCEPT !.words = 3]>>
                          \o [k \in 1..PadLen |-> Clean(v, 1, 1)]

collect(v, kind, max_candidates) ==
    LET found == Found(v, kind)
    IN  SubSeq(found, 1, Min(Len(found), max_candidates))

\* ------------------------------------------------------------ the machine
VARIABLES
    stateFile,    \* the state file: <<>> or <<blob>>
    metricsFile,  \* the metrics log: a sequence of records
    pc,           \* where run() is: "idle", "deploy", "finish"
    run,          \* the locals of the run() call in progress or last ended
    fx,           \* what that call did to its collaborators and files
    runs,         \* run() calls made
    log,          \* history: one entry per run() call that returned
    parked        \* the pc, run and fx of a second process, when there is one

vars == <<stateFile, metricsFile, pc, run, fx, runs, log, parked>>

NoEffects ==
    [ingest |-> {}, briefs |-> 0, artifacts |-> 0, publish_calls |-> <<>>,
     state_writes |-> 0, metrics_appends |-> 0, file_ops |-> <<>>]

NoRun ==
    [status |-> "none", vertical |-> "all", max_publish |-> <<>>,
     mode |-> "production", now |-> 0,
     generation_engine_requested |-> "gemini", quality_tier_requested |-> "premium", file_at_load |-> <<>>, metrics_at_load |-> 0,
     loaded |-> default_state(0), state |-> default_state(0),
     budget |-> load_budget_state(default_state(0), 0, 0),
     disabled |-> {}, active_verticals |-> <<>>, publish_limit |-> 0,
     quotas |-> [v \in {} |-> 0], all_generated |-> <<>>,
     per_vertical |-> [v \in {} |-> 0],
     candidate_count |-> 0, duplicate_count |-> 0, policy_flag_count |-> 0,
     deploy_attempts |-> 0, deploy_error |-> "", published_rows |-> <<>>,
     publish_counts |-> [v \in {} |-> 0], published |-> 0,
     metrics |-> build_ops_metrics(0, 0, 0, 0, 0), scaled_to |-> <<>>]

Init ==
    /\ stateFile = <<>>
    /\ metricsFile = <<>>
    /\ pc = "idle"
    /\ run = NoRun
    /\ fx = NoEffects
    /\ runs = 0
    /\ parked = <<>>
    /\ log = <<>>

\* ------------------------------------------------------------- variants
active_verticals_unfiltered(requested, disabled) == requested

retry_after_four(attempt) == attempt < DEPLOY_MAX_ATTEMPTS + 1

\* The streak disables one run late.
record_deploy_failure_late(state, disabled, generated) ==
    LET hit == {generated[i].topic.vertical : i \in 1..Len(generated)}
        failure_map == [v \in Verticals |->
                          IF v \in hit THEN state.vertical_deploy_failures[v] + 1
                          ELSE state.vertical_deploy_failures[v]]
    IN  [state |-> [state EXCEPT !.vertical_deploy_failures = failure_map],
         disabled |-> disabled \cup
                        {v \in hit : failure_map[v] > DEPLOY_FAILURE_DISABLE_COUNT}]

\* The rows of the failed deployment are kept.
record_deploy_failure_merging(state, disabled, generated) ==
    LET hit == {generated[i].topic.vertical : i \in 1..Len(generated)}
        failure_map == [v \in Verticals |->
                          IF v \in hit THEN state.vertical_deploy_failures[v] + 1
                          ELSE state.vertical_deploy_failures[v]]
    IN  [state |-> [state EXCEPT !.vertical_deploy_failures = failure_map,
                                 !.published = @ \o publish_rows(generated, state.updated_at)],
         disabled |-> disabled \cup
                        {v \in hit : failure_map[v] >= DEPLOY_FAILURE_DISABLE_COUNT}]

\* The streak counts attempts, not runs.
record_deploy_failure_per_attempt(state, disabled, generated) ==
    LET hit == {generated[i].topic.vertical : i \in 1..Len(generated)}
        failure_map == [v \in Verticals |->
                          IF v \in hit
                          THEN state.vertical_deploy_failures[v] + DEPLOY_MAX_ATTEMPTS
                          ELSE state.vertical_deploy_failures[v]]
    IN  [state |-> [state EXCEPT !.vertical_deploy_failures = failure_map],
         disabled |-> disabled \cup
                        {v \in hit : failure_map[v] >= DEPLOY_FAILURE_DISABLE_COUNT}]

\* The counters survive a successful deployment.
record_deploy_success_keep(state, publish_counts, published_rows) ==
    trim_published_history(
      [state EXCEPT !.published = merge_published_rows(@, published_rows)])

dry_run_counts_none(generated) == [v \in {} |-> 0]

\* The rate is compared with 0.3.
policy_rate_hit_tenfold(stats) ==
    stats.policy_flag_count * POLICY_DISABLE_DEN
        >= 10 * POLICY_DISABLE_NUM * Max(1, stats.candidate_count)

\* Every vertical is checked against the history loaded at the start.
RECURSIVE ProcessVerticals_apart(_, _, _, _)
ProcessVerticals_apart(active, i, acc, ctx) ==
    IF i > Len(active) THEN acc
    ELSE
      LET v == active[i]
          quota == ctx.quotas[v]
          candidates == collect(v, ctx.kinds[v],
                                Max(MIN_CANDIDATES_REQUESTED, quota * CANDIDATES_PER_QUOTA))
          res == approve_topics(candidates, acc.existing_history, quota)
          made == GenerateLoop(res.approved, 1,
                               [generated |-> <<>>, budget |-> acc.budget], ctx.req)
          stats == [candidate_count |-> res.stats.candidate_count,
                    duplicate_count |-> res.stats.duplicate_count,
                    policy_flag_count |-> res.stats.policy_flag_count,
                    blocked_count |-> res.stats.blocked_count,
                    approved_count |-> Len(res.approved),
                    generated_count |-> Len(made.generated)]
      IN  ProcessVerticals_apart(active, i + 1,
            [all_generated |-> acc.all_generated \o made.generated,
             existing_history |-> acc.existing_history,
             budget |-> made.budget,
             candidate_count |-> acc.candidate_count + res.stats.candidate_count,
             duplicate_count |-> acc.duplicate_count + res.stats.duplicate_count,
             policy_flag_count |-> acc.policy_flag_count + res.stats.policy_flag_count,
             per_vertical |-> [w \in DOMAIN acc.per_vertical \cup {v} |->
                                 IF w = v THEN stats ELSE acc.per_vertical[w]],
             ingest |-> acc.ingest \cup {v}],
            ctx)

\* pipeline.py 89: the requested verticals that are not disabled.
active_verticals(requested, disabled) ==
    SelectSeq(requested, LAMBDA v : v \notin disabled)

\* The for loop over active_verticals (pipeline.py 105-167) from index i on.
RECURSIVE ProcessVerticals(_, _, _, _)
ProcessVerticals(active, i, acc, ctx) ==
    IF i > Len(active) THEN acc
    ELSE
      LET v == active[i]
          quota == ctx.quotas[v]
          candidates == collect(v, ctx.kinds[v],
                                Max(MIN_CANDIDATES_REQUESTED, quota * CANDIDATES_PER_QUOTA))
          res == approve_topics(candidates, acc.existing_history, quota)
          made == GenerateLoop(res.approved, 1,
                               [generated |-> <<>>, budget |-> acc.budget], ctx.req)
          projection == [k \in 1..Len(res.approved) |->
                           [title |-> res.approved[k].title,
                            dedupe_hash |-> res.approved[k].dedupe_hash,
                            category |-> res.approved[k].category]]
          stats == [candidate_count |-> res.stats.candidate_count,
                    duplicate_count |-> res.stats.duplicate_count,
                    policy_flag_count |-> res.stats.policy_flag_count,
                    blocked_count |-> res.stats.blocked_count,
                    approved_count |-> Len(res.approved),
                    generated_count |-> Len(made.generated)]
      IN  ProcessVerticals(active, i + 1,
            [all_generated |-> acc.all_generated \o made.generated,
             existing_history |-> acc.existing_history \o projection,
             budget |-> made.budget,
             candidate_count |-> acc.candidate_count + res.stats.candidate_count,
             duplicate_count |-> acc.duplicate_count + res.stats.duplicate_count,
             policy_flag_count |-> acc.policy_flag_count + res.stats.policy_flag_count,
             per_vertical |-> [w \in DOMAIN acc.per_vertical \cup {v} |->
                                 IF w = v THEN stats ELSE acc.per_vertical[w]],
             ingest |-> acc.ingest \cup {v}],
            ctx)

\* pipeline.py 178: for attempt in range(1, 4) goes on after a raising attempt
\* while fewer than three were made.
retry_after(attempt) == attempt < DEPLOY_MAX_ATTEMPTS

\* pipeline.py 194-202: the deploy failed after its retries.
record_deploy_failure(state, disabled, generated) ==
    LET counts == count_generated_by_vertical(generated)
        hit == {v \in DOMAIN counts : counts[v] > 0}
        failure_map == [v \in Verticals |->
                          IF v \in hit THEN state.vertical_deploy_failures[v] + 1
                          ELSE state.vertical_deploy_failures[v]]
    IN  [state |-> [state EXCEPT !.vertical_deploy_failures = failure_map],
         disabled |-> disabled \cup
                        {v \in hit : failure_map[v] >= DEPLOY_FAILURE_DISABLE_COUNT}]

\* pipeline.py 203-208: the deploy succeeded.
record_deploy_success(state, publish_counts, published_rows) ==
    LET failure_map == [v \in Verticals |->
                          IF v \in DOMAIN publish_counts THEN 0
                          ELSE state.vertical_deploy_failures[v]]
    IN  trim_published_history(
          [state EXCEPT !.vertical_deploy_failures = failure_map,
                        !.published = merge_published_rows(@, published_rows)])

\* pipeline.py 210-212: a dry-run tallies what was generated.
dry_run_counts(generated) == count_generated_by_vertical(generated)

\* pipeline.py 214-218: float(policy_flag_count) / max(1, candidate_count) >= 0.03
policy_rate_hit(stats) ==
    stats.policy_flag_count * POLICY_DISABLE_DEN
        >= POLICY_DISABLE_NUM * Max(1, stats.candidate_count)

policy_disabled(per_vertical) ==
    {v \in DOMAIN per_vertical : policy_rate_hit(per_vertical[v])}

\* run(), lines 71-175: load, resolve, allocate, process every active
\* vertical, write the artifacts.  An unsupported name raises at line 88;
\* Ingestor.collect raises the same error for a name it does not know
\* (ingest.py 190-191).
StartRun(vertical, max_publish, mode, req, env_limit, now, kinds) ==
    /\ pc = "idle"
    /\ runs' = runs + 1
    /\ \E state \in {migrate_published_category(load_state(stateFile, now))} :
         LET call == [NoRun EXCEPT !.vertical = vertical, !.max_publish = max_publish,
                                   !.mode = mode, !.now = now,
                                   !.generation_engine_requested = req.engine,
                                   !.quality_tier_requested = req.quality,
                                   !.file_at_load = stateFile,
                                   !.metrics_at_load = Len(metricsFile),
                                   !.loaded = state, !.state = state]
             budget == [load_budget_state(state, now, env_limit)
                          EXCEPT !.limit_krw = Max(1, env_limit)]
             disabled == Range(state.disabled_verticals)
             active == active_verticals(resolve_verticals(vertical), disabled)
             publish_limit == requested_publish_limit(max_publish, state.publish_limit)
             quotas == allocate_quota(active, publish_limit)
         IN  IF resolve_raises(vertical)
             THEN /\ run' = [call EXCEPT !.status = "ValueError"]
                  /\ fx' = NoEffects
                  /\ UNCHANGED <<stateFile, metricsFile, pc, log, parked>>
             ELSE IF active # <<>> /\ active[1] \notin Verticals
             THEN /\ run' = [call EXCEPT !.status = "ValueError",
                                         !.active_verticals = active]
                  /\ fx' = [NoEffects EXCEPT !.ingest = {active[1]}]
                  /\ UNCHANGED <<stateFile, metricsFile, pc, log, parked>>
             ELSE
               \E done \in {ProcessVerticals(active, 1,
                        [all_generated |-> <<>>, existing_history |-> state.published,
                         budget |-> budget, candidate_count |-> 0,
                         duplicate_count |-> 0, policy_flag_count |-> 0,
                         per_vertical |-> [v \in {} |-> 0], ingest |-> {}],
                        [quotas |-> quotas, kinds |-> kinds, req |-> req])} :
                 /\ run' = [call EXCEPT
                              !.status = "running", !.budget = done.budget,
                              !.disabled = disabled, !.active_verticals = active,
                              !.publish_limit = publish_limit, !.quotas = quotas,
                              !.all_generated = done.all_generated,
                              !.per_vertical = done.per_vertical,
                              !.candidate_count = done.candidate_count,
                              !.duplicate_count = done.duplicate_count,
                              !.policy_flag_count = done.policy_flag_count]
                 /\ fx' = [NoEffects EXCEPT !.ingest = done.ingest,
                                            !.briefs = Len(done.all_generated),
                                            !.artifacts = Len(done.all_generated)]
                 /\ pc' = IF mode = "production" /\ done.all_generated # <<>>
                          THEN "deploy" ELSE "finish"
                 /\ UNCHANGED <<stateFile, metricsFile, log, parked>>

\* run(), lines 178-190: one pass of the attempt loop in which publish returns.
DeployOk ==
    /\ pc = "deploy"
    /\ \E rows \in {publish_rows(run.all_generated, run.now)} :
         run' = [run EXCEPT
                   !.deploy_attempts = @ + 1,
                   !.published_rows = rows,
                   !.publish_counts =
                      [v \in {rows[i].vertical : i \in 1..Len(rows)} |->
                         Cardinality({i \in 1..Len(rows) : rows[i].vertical = v})],
                   !.deploy_error = ""]
    /\ fx' = [fx EXCEPT !.publish_calls = Append(@, "returned")]
    /\ pc' = "finish"
    /\ UNCHANGED <<stateFile, metricsFile, runs, log, parked>>

\* run(), lines 178-192: one pass of the attempt loop in which publish raises.
DeployRaise ==
    /\ pc = "deploy"
    /\ run' = [run EXCEPT !.deploy_attempts = @ + 1, !.deploy_error = "raised"]
    /\ fx' = [fx EXCEPT !.publish_calls = Append(@, "raised")]
    /\ pc' = IF retry_after(run.deploy_attempts + 1) THEN "deploy" ELSE "finish"
    /\ UNCHANGED <<stateFile, metricsFile, runs, log, parked>>

\* run(), lines 194-276: failure streaks, merge, policy disable, budget,
\* metrics, daily history, scaling, save, append, return.
FinishRun ==
    /\ pc = "finish"
    /\ LET deployed == run.mode = "production" /\ run.all_generated # <<>>
           failed == deployed /\ run.published_rows = <<>>
           after ==
             IF failed
               THEN record_deploy_failure(run.state, run.disabled, run.all_generated)
             ELSE IF deployed
               THEN [state |-> record_deploy_success(run.state, run.publish_counts,
                                                     run.published_rows),
                     disabled |-> run.disabled]
             ELSE [state |-> run.state, disabled |-> run.disabled]
           publish_counts ==
             IF deployed THEN run.publish_counts
             ELSE IF run.mode = "dry-run" THEN dry_run_counts(run.all_generated)
             ELSE [v \in {} |-> 0]
           policy == policy_disabled(run.per_vertical)
           disabled == after.disabled \cup policy
           flagged == [after.state EXCEPT !.disabled_verticals = Sorted(disabled)]
           budgeted == save_budget_state(flagged, run.budget)
           total_publish == SumOver(publish_counts, DOMAIN publish_counts)
       IN  \E ops_metrics \in {build_ops_metrics(run.now, run.candidate_count,
                                  run.duplicate_count, run.policy_flag_count,
                                  total_publish)} :
           LET daily_entry == [date |-> run.now,
                               duplicate_rate |-> ops_metrics.duplicate_rate,
                               policy_flag_rate |-> ops_metrics.policy_flag_rate,
                               indexed_rate |-> ops_metrics.indexed_rate,
                               publish_count |-> ops_metrics.publish_count]
           IN  \E scaled \in {maybe_scale_publish_limit(
                                 upsert_daily_history(budgeted, daily_entry))} :
               \E final \in {[scaled.state EXCEPT !.updated_at = run.now]} :
                 /\ stateFile' = save_state(stateFile, final)
                 /\ metricsFile' = append_jsonl(metricsFile, ops_metrics)
                 /\ run' = [run EXCEPT !.status = "returned", !.state = final,
                                       !.disabled = disabled,
                                       !.publish_counts = publish_counts,
                                       !.published = total_publish,
                                       !.metrics = ops_metrics,
                                       !.scaled_to = scaled.scaled_to]
                 /\ fx' = [fx EXCEPT !.state_writes = @ + 1, !.metrics_appends = @ + 1,
                                     !.file_ops = @ \o <<"save_state", "append_metrics">>]
                 /\ log' = Append(log,
                      [mode |-> run.mode,
                       start_failures |-> run.loaded.vertical_deploy_failures,
                       start_disabled |-> Range(run.loaded.disabled_verticals),
                       active |-> Range(run.active_verticals),
                       ingest |-> fx.ingest,
                       generated |-> DOMAIN count_generated_by_vertical(run.all_generated),
                       failed |-> failed,
                       published |-> IF deployed /\ ~failed
                                     THEN DOMAIN run.publish_counts ELSE {},
                       policy |-> policy,
                       end_failures |-> final.vertical_deploy_failures,
                       end_disabled |-> Range(final.disabled_verticals),
                       payloads |-> [i \in 1..Len(run.all_generated) |->
                                       run.all_generated[i].payload],
                       budget |-> final.budget[1]])
    /\ pc' = "idle"
    /\ UNCHANGED <<runs, parked>>

\* ------------------------------------------------------- the environment
\* The arguments callers pass and what the collaborators answer.
Modes == {"production", "dry-run"}
Requests ==
    {[engine |-> "template", quality |-> "premium",
      gen |-> [up |-> TRUE, premium |-> 14000, balanced |-> 8000]]}
BudgetLimits == {300}
\* Every vertical finds fresh clean topics.
FreshBatches == {[v \in Verticals |-> "fresh"]}
\* The finance feed finds any of the lists, the others fresh clean topics.
FinanceBatches ==
    {[v \in Verticals |-> IF v = VERTICAL_FINANCE THEN kind ELSE "fresh"] :
        kind \in IngestKinds}

\* One run() call with arguments from the given menus.
Call(verticals, limits, modes, batches) ==
    \E vertical \in verticals, max_publish \in limits, mode \in modes,
       req \in Requests, env_limit \in BudgetLimits, kinds \in batches :
         StartRun(vertical, max_publish, mode, req, env_limit, runs + 1, kinds)

\* What the generation collaborator does during a run: it answers below its
\* estimates, at them, above them, or it is down.
Collaborators ==
    {[up |-> TRUE, premium |-> 14000, balanced |-> 8000],
     [up |-> TRUE, premium |-> PREMIUM_EST_KRW * 100, balanced |-> BALANCED_EST_KRW * 100],
     [up |-> TRUE, premium |-> 30000, balanced |-> 17000],
     [up |-> FALSE, premium |-> 0, balanced |-> 0]}

EngineRequests ==
    {[engine |-> engine, quality |-> quality, gen |-> gen] :
        engine \in {"gemini", "template"}, quality \in {"premium", "balanced"},
        gen \in Collaborators}

\* Repeated runs of the whole site or of one vertical, one brief per vertical.
Next ==
    \/ runs < MaxRuns /\ Call({"all", VERTICAL_FINANCE}, {<<1>>}, Modes, FreshBatches)
    \/ DeployOk
    \/ DeployRaise
    \/ FinishRun

Spec == Init /\ [][Next]_vars

\* Runs at the persisted publish limit over every kind of finance feed.
NextPolicy ==
    \/ runs < MaxPolicyRuns
         /\ Call({"all", VERTICAL_FINANCE}, {<<>>}, Modes, FinanceBatches)
    \/ DeployOk
    \/ DeployRaise
    \/ FinishRun

SpecPolicy == Init /\ [][NextPolicy]_vars

\* Runs under every kind of max_publish and vertical argument.
NextLimits ==
    \/ runs < MaxLimitRuns
         /\ Call({"all", VERTICAL_FINANCE, "crypto"},
                 {<<>>, <<0>>, <<-1>>, <<1>>, <<2>>}, Modes, FreshBatches)
    \/ DeployOk
    \/ DeployRaise
    \/ FinishRun

SpecLimits == Init /\ [][NextLimits]_vars

\* Every vertical finds a wide feed.
WideBatches == {[v \in Verticals |-> "wide"]}

\* Daily runs of the whole site over wide feeds, at the persisted limit or
\* at a limit of 15.
NextStages ==
    \/ runs < MaxStageRuns
         /\ Call({"all"}, {<<>>, <<15>>}, {"dry-run"}, WideBatches)
    \/ FinishRun

SpecStages == Init /\ [][NextStages]_vars

\* The body of the generation loop of run() on its own (pipeline.py 119-137):
\* calls made one after the other on one budget, from any point of a month
\* that has not spent more than its limit.  Each call requests an engine and
\* a tier; the generation collaborator answers at some cost or fails.  In
\* this specification log holds one entry per call: what was requested, what
\* the selector returned, the brief's engine tag and cost, and spent before
\* and after.
LimitsTried == {300, 2000}
RemainingTried == {30001, 30000, 22000, 21999, 12000, 11999, 1, 0}
CostsTried == {6000, 22000, 30000}

OneTopic ==
    LET c == Clean("ai_tech", 1, 0)
    IN  ApprovedTopic(c, dedupe_hash(c.title), evaluate_policy(c))

InitBudget ==
    /\ stateFile = <<>>
    /\ metricsFile = <<>>
    /\ pc = "idle"
    /\ \E limit \in LimitsTried :
       \E remaining \in RemainingTried \cup {limit * 100} :
         /\ remaining <= limit * 100
         /\ run = [NoRun EXCEPT
                     !.budget = [load_budget_state(default_state(0), 1, limit)
                                   EXCEPT !.spent_krw = limit * 100 - remaining]]
    /\ fx = NoEffects
    /\ runs = 0
    /\ parked = <<>>
    /\ log = <<>>

Generate ==
    /\ Len(log) < MaxCalls
    /\ \E engine \in {"gemini", "template"}, quality \in {"premium", "balanced"},
          up \in BOOLEAN, cost \in CostsTried :
         \E mode \in {choose_generation_mode(engine, quality, run.budget)} :
         \E brief \in {build_generated_brief(OneTopic, mode.engine, mode.quality,
                           [up |-> up, premium |-> cost, balanced |-> cost])} :
         \E budget \in {apply_generation_cost_to_budget(mode.budget, brief.payload)} :
           /\ run' = [run EXCEPT !.status = "generating", !.budget = budget,
                                  !.all_generated = Append(@, brief)]
           /\ log' = Append(log,
                  [requested_engine |-> engine, requested_quality |-> quality,
                   engine |-> mode.engine, quality |-> mode.quality,
                   engine_used |-> brief.payload.generation_engine,
                   cost |-> brief.payload.generation_cost_krw,
                   limit |-> run.budget.limit_krw,
                   spent |-> run.budget.spent_krw,
                   spent_after |-> budget.spent_krw])
    /\ UNCHANGED <<stateFile, metricsFile, pc, fx, runs, parked>>

NextBudget == Generate

SpecBudget == InitBudget /\ [][NextBudget]_vars

\* Runs of one vertical with any engine and tier requested, three briefs a
\* run, under a monthly budget of 300 or of 500 KRW.
SpendLimits == {300, 500}

NextSpend ==
    \/ runs < MaxSpendRuns
         /\ \E mode \in Modes, req \in EngineRequests, env_limit \in SpendLimits :
              StartRun("ai_tech", <<3>>, mode, req, env_limit, runs + 1,
                       [v \in Verticals |-> "wide"])
    \/ DeployOk
    \/ DeployRaise
    \/ FinishRun

SpecSpend == Init /\ [][NextSpend]_vars

\* approve_topics on its own: up to MaxCandidates candidates of one vertical
\* about two topics, each clean, flagged (a three-word title) or blocked (no
\* source URL); a history that holds any of the two topics under a restyled
\* title; a max_count of 1 or 2.  In this specification log holds the call:
\* its arguments and, once it is made, its result.
CandidatesTried ==
    {[Clean(VERTICAL_FINANCE, k, 0) EXCEPT !.words = words, !.sources = sources] :
        k \in 1..2, words \in {3, 5}, sources \in {0, 1}}

CandidateLists == UNION {[1..n -> CandidatesTried] : n \in 0..MaxCandidates}

HistoryRow(k) ==
    LET title == [key |-> TopicKeys[VERTICAL_FINANCE][k], style |-> 1]
    IN  [title |-> title, dedupe_hash |-> dedupe_hash(title), category |-> DEFAULT_CATEGORY]

HistoriesTried == {<<>>, <<HistoryRow(1)>>, <<HistoryRow(2)>>, <<HistoryRow(1), HistoryRow(2)>>}

InitApprove ==
    /\ stateFile = <<>>
    /\ metricsFile = <<>>
    /\ pc = "idle"
    /\ run = NoRun
    /\ fx = NoEffects
    /\ runs = 0
    /\ parked = <<>>
    /\ \E candidates \in CandidateLists, history_rows \in HistoriesTried,
          max_count \in {1, 2} :
         log = <<[candidates |-> candidates, history_rows |-> history_rows,
                  max_count |-> max_count]>>

Approve ==
    /\ Len(log) = 1
    /\ log' = Append(log, approve_topics(log[1].candidates, log[1].history_rows,
                                          log[1].max_count))
    /\ UNCHANGED <<stateFile, metricsFile, pc, run, fx, runs, parked>>

NextApprove == Approve

SpecApprove == InitApprove /\ [][NextApprove]_vars

\* approve_topics over a long history: the history holds up to
\* NEAR_DUP_WINDOW + MaxBeyond rows of unrelated stories, one of which may be
\* replaced by a wording of the story the candidates are about; the batch
\* holds one or two candidates, each a wording of that story or an
\* unrelated one.  Keys are <<story, wording>> pairs here.  log holds the
\* call and its result as in SpecApprove.
Wording(story, w) == [key |-> <<story, w>>, style |-> 0, story |-> story]

WindowCandidate(story, w) ==
    [title |-> Wording(story, w), vertical |-> "ai_tech", sources |-> 1,
     words |-> 5, shouting |-> FALSE, exaggerated |-> FALSE, advice |-> "none",
     rule_hits |-> {}]

WindowRow(story, w) ==
    [title |-> Wording(story, w), dedupe_hash |-> dedupe_hash(Wording(story, w)),
     category |-> DEFAULT_CATEGORY]

\* n rows of the stories 1..n, row p (if any) replaced by wording w of story 0
LongHistory(n, p, w) ==
    [k \in 1..n |-> IF k = p THEN WindowRow(0, w) ELSE WindowRow(k, 0)]

HistoryLengths ==
    (0..2) \cup ((NEAR_DUP_WINDOW - 1)..(NEAR_DUP_WINDOW + MaxBeyond))

WindowCandidates == {WindowCandidate(0, 0), WindowCandidate(0, 1), WindowCandidate(-1, 0)}

InitWindow ==
    /\ stateFile = <<>>
    /\ metricsFile = <<>>
    /\ pc = "idle"
    /\ run = NoRun
    /\ fx = NoEffects
    /\ runs = 0
    /\ parked = <<>>
    /\ \E n \in HistoryLengths, w \in {0, 1}, max_count \in {1, 2} :
       \E p \in {0, 1, 2, n - 1, n} \cap (0..n) :
       \E candidates \in UNION {[1..m -> WindowCandidates] : m \in 1..2} :
         log = <<[candidates |-> candidates, history_rows |-> LongHistory(n, p, w),
                  max_count |-> max_count]>>

SpecWindow == InitWindow /\ [][NextApprove]_vars

\* approve_topics on one candidate of any text, alone or next to a clean
\* candidate of another topic, over an empty history.  log holds the call
\* and its result as in SpecApprove.
PolicyCandidates ==
    {[Clean(v, 1, 0) EXCEPT !.sources = sources, !.words = words,
                            !.shouting = shouting, !.exaggerated = exaggerated,
                            !.advice = advice] :
        v \in {"ai_tech", VERTICAL_FINANCE}, sources \in 0..2, words \in {3, 5},
        shouting \in BOOLEAN, exaggerated \in BOOLEAN,
        advice \in {"none", "title", "snippet", "joined"}}

InitPolicyEval ==
    /\ stateFile = <<>>
    /\ metricsFile = <<>>
    /\ pc = "idle"
    /\ run = NoRun
    /\ fx = NoEffects
    /\ runs = 0
    /\ parked = <<>>
    /\ \E c \in PolicyCandidates, max_count \in {1, 2} :
       \E candidates \in {<<c>>, <<c, Clean(c.vertical, 2, 0)>>,
                           <<Clean(c.vertical, 2, 0), c>>} :
         log = <<[candidates |-> candidates, history_rows |-> <<>>,
                  max_count |-> max_count]>>

SpecPolicyEval == InitPolicyEval /\ [][NextApprove]_vars

\* Each vertical's feed is fresh or carries the shared story.
SharedBatches == [Verticals -> {"fresh", "shared"}]

\* Runs of the whole site at the persisted limit over such feeds.
NextShared ==
    \/ runs < MaxSharedRuns /\ Call({"all"}, {<<>>}, Modes, SharedBatches)
    \/ DeployOk
    \/ DeployRaise
    \/ FinishRun

SpecShared == Init /\ [][NextShared]_vars

\* Runs of one vertical, one brief each, over feeds of long titles.
LongBatches == {[v \in Verticals |-> kind] : kind \in {"long_a", "long_b"}}

NextPaths ==
    \/ runs < MaxPathRuns /\ Call({"ai_tech"}, {<<1>>}, Modes, LongBatches)
    \/ DeployOk
    \/ DeployRaise
    \/ FinishRun

SpecPaths == Init /\ [][NextPaths]_vars

\* _merge_published_rows on its own: up to MaxExisting existing rows and one
\* or two new rows over two story paths, with legacy lists that repeat a
\* path, hold an empty entry or hold the row's own path; a row of either
\* list may lack a path.  The result is then merged with the same new rows
\* again.  In this specification log holds the call, then the first result,
\* then the second.
PathsTried == {<<"stories", "ai", "a">>, <<"stories", "ai", "b">>}
LegacyA == <<"category", "ai", "a">>
LegacyB == <<"ai_tech", "ai-models", "a">>
LegacyC == <<"ai_tech", "a">>

ExistingRowsTried ==
    {[path |-> path, legacy_paths |-> legacy, published_at |-> at, title |-> "old"] :
        path \in PathsTried, legacy \in {<<>>, <<LegacyB, LegacyA>>}, at \in {1, 2}}
    \cup {[path |-> <<>>, legacy_paths |-> <<>>, published_at |-> 1, title |-> "old"]}

NewRowsTried ==
    {[path |-> path, legacy_paths |-> legacy, published_at |-> at, title |-> "new"] :
        path \in PathsTried,
        legacy \in {<<>>, <<LegacyA, LegacyC>>,
                    <<LegacyC, LegacyC, <<>>, <<"stories", "ai", "a">>>>},
        at \in {2, 3}}
    \cup {[path |-> <<>>, legacy_paths |-> <<LegacyA>>, published_at |-> 3, title |-> "new"]}

InitMerge ==
    /\ stateFile = <<>>
    /\ metricsFile = <<>>
    /\ pc = "idle"
    /\ run = NoRun
    /\ fx = NoEffects
    /\ runs = 0
    /\ parked = <<>>
    /\ \E existing_rows \in UNION {[1..n -> ExistingRowsTried] : n \in 0..MaxExisting},
          new_rows \in UNION {[1..n -> NewRowsTried] : n \in 1..2} :
         log = <<[existing_rows |-> existing_rows, new_rows |-> new_rows]>>

Merge ==
    /\ Len(log) = 1
    /\ log' = Append(log, merge_published_rows(log[1].existing_rows, log[1].new_rows))
    /\ UNCHANGED <<stateFile, metricsFile, pc, run, fx, runs, parked>>

MergeAgain ==
    /\ Len(log) = 2
    /\ log' = Append(log, merge_published_rows(log[2], log[1].new_rows))
    /\ UNCHANGED <<stateFile, metricsFile, pc, run, fx, runs, parked>>

NextMerge == Merge \/ MergeAgain

SpecMerge == InitMerge /\ [][NextMerge]_vars

\* Runs of one vertical whose now argument is any date, in any order.
NextDates ==
    \/ /\ runs < MaxDateRuns
       /\ \E now \in 1..MaxDate, mode \in Modes, req \in Requests,
             env_limit \in BudgetLimits, kinds \in FreshBatches :
            StartRun(VERTICAL_FINANCE, <<1>>, mode, req, env_limit, now, kinds)
    \/ DeployOk
    \/ DeployRaise
    \/ FinishRun

SpecDates == Init /\ [][NextDates]_vars

\* Runs of the whole site or of one vertical over wide feeds, at the
\* persisted limit, at a limit of 4 or at a negative limit, with the rich
\* engine requested from a collaborator that is dear or down, or with the
\* template requested.
CapRequests ==
    {[engine |-> "gemini", quality |-> "premium",
      gen |-> [up |-> TRUE, premium |-> 30000, balanced |-> 17000]],
     [engine |-> "gemini", quality |-> "premium",
      gen |-> [up |-> FALSE, premium |-> 0, balanced |-> 0]],
     [engine |-> "template", quality |-> "balanced",
      gen |-> [up |-> TRUE, premium |-> 14000, balanced |-> 8000]]}

NextCaps ==
    \/ /\ runs < MaxCapRuns
       /\ \E vertical \in {"all", VERTICAL_FINANCE}, max_publish \in {<<>>, <<4>>, <<-1>>},
             mode \in Modes, req \in CapRequests, env_limit \in BudgetLimits :
            StartRun(vertical, max_publish, mode, req, env_limit, runs + 1,
                     [v \in Verticals |-> "wide"])
    \/ DeployOk
    \/ DeployRaise
    \/ FinishRun

SpecCaps == Init /\ [][NextCaps]_vars

\* -------------------------------- publish.py: StaticSitePublisher.publish
\* publish() step by step on the three directories it works on: the live
\* site, <site>.staging and <site>.backup.  A directory is <<>> when the
\* path does not exist and <<pages>> when it holds that set of pages; page 0
\* is what the site held before the first call and each call renders the
\* page of its briefs.  Every file-system operation either succeeds or
\* raises: a copy or a removal that raises leaves any part of the tree
\* behind, a rename that raises leaves both paths as they were.  In this
\* specification fx holds the directories, run the locals of the call
\* (the live site it found, the page it renders, the step that raised) and
\* log one entry per call that ended.
NewPages == {1, 2}
Absent == <<>>
PagesOf(dir) == IF dir = Absent THEN {} ELSE dir[1]
Remnants(dir) == {<<some>> : some \in SUBSET PagesOf(dir)}

InitPublish ==
    /\ stateFile = <<>>
    /\ metricsFile = <<>>
    /\ pc = "idle"
    /\ run = [pre |-> Absent, page |-> 0, failed |-> ""]
    /\ runs = 0
    /\ parked = <<>>
    /\ log = <<>>
    /\ \E site \in {Absent, <<{0}>>} :
         fx = [site |-> site, staging |-> Absent, backup |-> Absent]

\* The call ends, returning or raising, with the directories as given.
PublishEnds(dirs, outcome, step) ==
    /\ fx' = dirs
    /\ pc' = "idle"
    /\ run' = [run EXCEPT !.failed = step]
    /\ log' = Append(log, [pre |-> run.pre, page |-> run.page, site |-> dirs.site,
                           outcome |-> outcome, failed |-> step])
    /\ UNCHANGED <<stateFile, metricsFile, runs, parked>>

\* The call goes on to its next step; failed names the step that raised
\* when the next step is the except block.
PublishStep(dirs, next, failed) ==
    /\ fx' = dirs
    /\ pc' = next
    /\ run' = [run EXCEPT !.failed = failed]
    /\ UNCHANGED <<stateFile, metricsFile, runs, log, parked>>

\* lines 48-55: the call starts.
PublishBegin ==
    /\ pc = "idle"
    /\ runs < MaxPublishCalls
    /\ \E page \in NewPages :
         run' = [pre |-> fx.site, page |-> page, failed |-> ""]
    /\ runs' = runs + 1
    /\ pc' = "clean_staging"
    /\ UNCHANGED <<stateFile, metricsFile, fx, log, parked>>

\* lines 57-58: a staging directory left by an earlier call is removed.
CleanStaging ==
    /\ pc = "clean_staging"
    /\ IF fx.staging = Absent THEN PublishStep(fx, "copy", "")
       ELSE \/ PublishStep([fx EXCEPT !.staging = Absent], "copy", "")
            \/ \E left \in Remnants(fx.staging) :
                 PublishEnds([fx EXCEPT !.staging = left], "raised", "clean_staging")

\* lines 60-63: the live site is copied to staging, or staging is created.
StageCopy ==
    /\ pc = "copy"
    /\ \/ PublishStep([fx EXCEPT !.staging = IF fx.site = Absent THEN <<{}>> ELSE fx.site],
                      "render", "")
       \/ \E part \in {Absent} \cup Remnants(fx.site) :
            PublishEnds([fx EXCEPT !.staging = part], "raised", "copy")

\* lines 65-107: the pages of the briefs and the aggregate pages are written
\* into staging.
Render ==
    /\ pc = "render"
    /\ \/ PublishStep([fx EXCEPT !.staging = <<PagesOf(@) \cup {run.page}>>], "drop_backup", "")
       \/ PublishEnds(fx, "raised", "render")

\* lines 109-110: a backup left by an earlier call is removed.
DropBackup ==
    /\ pc = "drop_backup"
    /\ IF fx.backup = Absent THEN PublishStep(fx, "swap_out", "")
       ELSE \/ PublishStep([fx EXCEPT !.backup = Absent], "swap_out", "")
            \/ \E left \in Remnants(fx.backup) :
                 PublishEnds([fx EXCEPT !.backup = left], "raised", "drop_backup")

\* lines 112-114: the live site is renamed to the backup.
SwapOut ==
    /\ pc = "swap_out"
    /\ IF fx.site = Absent THEN PublishStep(fx, "swap_in", "")
       ELSE \/ PublishStep([fx EXCEPT !.backup = fx.site, !.site = Absent], "swap_in", "")
            \/ PublishStep(fx, "restore", "swap_out")

\* line 115: staging is renamed to the live site.
SwapIn ==
    /\ pc = "swap_in"
    /\ \/ PublishStep([fx EXCEPT !.site = fx.staging, !.staging = Absent], "cleanup", "")
       \/ PublishStep(fx, "restore", "swap_in")

\* lines 116-117 and 125: the backup is removed and the call returns.
Cleanup ==
    /\ pc = "cleanup"
    /\ IF fx.backup = Absent THEN PublishEnds(fx, "returned", "")
       ELSE \/ PublishEnds([fx EXCEPT !.backup = Absent], "returned", "")
            \/ \E left \in Remnants(fx.backup) :
                 PublishStep([fx EXCEPT !.backup = left], "restore", "cleanup")

\* lines 118-123: the except block.  The live site, if there is one, is
\* removed with ignore_errors, which may silently leave any part of it; the
\* backup, if there is one, is renamed to the live site, which raises when
\* files are left at the live path or when the rename is refused; then the
\* exception is raised again.
Restore ==
    /\ pc = "restore"
    /\ \E site \in (IF fx.site = Absent THEN {Absent}
                     ELSE {Absent} \cup Remnants(fx.site)) :
       \E renamed \in (IF fx.backup = Absent \/ PagesOf(site) # {}
                        THEN {FALSE} ELSE BOOLEAN) :
         PublishEnds(IF renamed THEN [fx EXCEPT !.site = fx.backup, !.backup = Absent]
                                 ELSE [fx EXCEPT !.site = site],
                     "raised", run.failed)

NextPublish ==
    \/ PublishBegin
    \/ CleanStaging
    \/ StageCopy
    \/ Render
    \/ DropBackup
    \/ SwapOut
    \/ SwapIn
    \/ Cleanup
    \/ Restore

SpecPublish == InitPublish /\ [][NextPublish]_vars

\* Feeds in which the first candidate of ai_tech or of finance may come
\* without a source URL; lifestyle_pop finds fresh clean topics.
UnsourcedBatches ==
    {[v \in Verticals |-> IF v = "lifestyle_pop" THEN "fresh" ELSE kinds[v]] :
        kinds \in [Verticals -> {"fresh", "blocked"}]}

\* Runs of the whole site at the persisted limit over such feeds.
NextDisable ==
    \/ runs < MaxDisableRuns /\ Call({"all"}, {<<>>}, Modes, UnsourcedBatches)
    \/ DeployOk
    \/ DeployRaise
    \/ FinishRun

SpecDisable == Init /\ [][NextDisable]_vars

\* Daily runs of the whole site over wide feeds at the persisted limit, in
\* either mode, with a publisher that returns.
NextFloor ==
    \/ runs < MaxFloorRuns /\ Call({"all"}, {<<>>}, Modes, WideBatches)
    \/ DeployOk
    \/ FinishRun

SpecFloor == Init /\ [][NextFloor]_vars

\* Runs on a state file whose published history is full or nearly full: it
\* holds MAX_PUBLISHED_HISTORY rows or up to MaxUnder fewer, newest first as
\* every merge leaves them, one story per row and RowsPerDay rows per day,
\* all older than the runs.
FullRow(i) ==
    LET s == "old-" \o ToString(i)
    IN  [slug |-> s, vertical |-> "ai_tech", title |-> [key |-> s, style |-> 0],
         published_at |-> 0 - ((i - 1) \div RowsPerDay), dedupe_hash |-> s,
         path |-> StoryPath(DEFAULT_CATEGORY, s),
         category |-> DEFAULT_CATEGORY, legacy_paths |-> <<>>]

InitTrim ==
    /\ \E n \in (MAX_PUBLISHED_HISTORY - MaxUnder)..MAX_PUBLISHED_HISTORY :
          stateFile = <<[default_state(0) EXCEPT
                           !.published = [i \in 1..n |-> FullRow(i)]]>>
    /\ metricsFile = <<>>
    /\ pc = "idle"
    /\ run = NoRun
    /\ fx = NoEffects
    /\ runs = 0
    /\ parked = <<>>
    /\ log = <<>>

\* Runs of the whole site or of one vertical, one brief per vertical.
NextTrim ==
    \/ runs < MaxTrimRuns
         /\ Call({"all", VERTICAL_FINANCE}, {<<1>>}, Modes, FreshBatches)
    \/ DeployOk
    \/ DeployRaise
    \/ FinishRun

SpecTrim == InitTrim /\ [][NextTrim]_vars

\* Runs on a state file that has a ledger: the month of day 1 has spent
\* nothing or its whole limit of 300 KRW, and budget_usage holds that month
\* and the months before it, BUDGET_USAGE_MONTHS in all or up to MaxMissing
\* fewer.  Each run is a dry run of one vertical, two briefs, on any day up
\* to MaxLedgerDate, in any order; the rich engine is requested against a
\* collaborator within its estimates or far above them, or the template is.
LedgerLimit == 300
LedgerRequests ==
    {[engine |-> "gemini", quality |-> "premium",
      gen |-> [up |-> TRUE, premium |-> 14000, balanced |-> 8000]],
     [engine |-> "gemini", quality |-> "premium",
      gen |-> [up |-> TRUE, premium |-> 30000, balanced |-> 17000]],
     [engine |-> "template", quality |-> "premium",
      gen |-> [up |-> TRUE, premium |-> 14000, balanced |-> 8000]]}

InitLedger ==
    /\ \E spent \in {0, LedgerLimit * 100} :
       \E months \in (BUDGET_USAGE_MONTHS - MaxMissing)..BUDGET_USAGE_MONTHS :
          stateFile =
            <<[default_state(0) EXCEPT
                 !.budget = <<[month |-> 0, spent_krw |-> spent,
                               limit_krw |-> LedgerLimit,
                               last_engine |-> "gemini",
                               last_quality_tier |-> "premium",
                               capped |-> spent >= LedgerLimit * 100]>>,
                 !.budget_usage = [k \in (1 - months)..0 |->
                                     IF k = 0 THEN spent ELSE 10000]]>>
    /\ metricsFile = <<>>
    /\ pc = "idle"
    /\ run = NoRun
    /\ fx = NoEffects
    /\ runs = 0
    /\ parked = <<>>
    /\ log = <<>>

NextLedger ==
    \/ runs < MaxLedgerRuns
         /\ \E req \in LedgerRequests, now \in 1..MaxLedgerDate :
              StartRun(VERTICAL_FINANCE, <<2>>, "dry-run", req, LedgerLimit, now,
                       [v \in Verticals |-> "wide"])
    \/ FinishRun

SpecLedger == InitLedger /\ [][NextLedger]_vars

\* Two processes on one state file.  Each runs run() with its own locals;
\* the state file and the metrics log are the only things they share, and
\* neither load_state nor save_state takes a lock or compares versions.  The
\* scheduler moves from one process to the other between any two steps of
\* run(): the first move starts the second process, the later ones resume
\* the process that waits.  A save is one step: write_json of one process
\* runs to its end before the other process enters it.
Switch ==
    /\ \/ /\ parked = <<>>
          /\ pc # "idle"
          /\ runs < MaxRaceRuns
          /\ parked' = <<[pc |-> pc, run |-> run, fx |-> fx]>>
          /\ pc' = "idle"
          /\ run' = NoRun
          /\ fx' = NoEffects
       \/ /\ parked # <<>>
          /\ parked' = <<[pc |-> pc, run |-> run, fx |-> fx]>>
          /\ pc' = parked[1].pc
          /\ run' = parked[1].run
          /\ fx' = parked[1].fx
    /\ UNCHANGED <<stateFile, metricsFile, runs, log>>

\* Runs of the finance vertical, one brief each, by the two processes.
NextRace ==
    \/ runs < MaxRaceRuns /\ Call({VERTICAL_FINANCE}, {<<1>>}, Modes, FreshBatches)
    \/ DeployOk
    \/ DeployRaise
    \/ FinishRun
    \/ Switch

SpecRace == Init /\ [][NextRace]_vars

\* _allocate_quota on its own: any list of distinct verticals, any limit.
VerticalLists ==
    {s \in UNION {[1..n -> Verticals] : n \in 0..Cardinality(Verticals)} :
        \A i, j \in 1..Len(s) : i # j => s[i] # s[j]}

InitQuota ==
    /\ stateFile = <<>>
    /\ metricsFile = <<>>
    /\ pc = "idle"
    /\ \E verticals \in VerticalLists, publish_limit \in (0 - MaxLimit)..MaxLimit :
         run = [NoRun EXCEPT !.active_verticals = verticals,
                             !.publish_limit = publish_limit]
    /\ fx = NoEffects
    /\ runs = 0
    /\ parked = <<>>
    /\ log = <<>>

Allocate ==
    /\ run.status = "none"
    /\ run' = [run EXCEPT !.status = "allocated",
                          !.quotas = allocate_quota(run.active_verticals,
                                                    run.publish_limit)]
    /\ UNCHANGED <<stateFile, metricsFile, pc, fx, runs, log, parked>>

NextQuota == Allocate

SpecQuota == InitQuota /\ [][NextQuota]_vars

\* maybe_scale_publish_limit on its own: a staged limit and a daily history
\* of up to MaxDays entries.  The days are good (the rates of a clean day),
\* edge (every rate one step inside its threshold) and at most one day that
\* breaks one threshold; the dates are consecutive days except for at most
\* one skipped day.
DayKinds == {"dup-at-max", "flag-at-max", "indexed-low"}

DayEntry(date, kind) ==
    [date |-> date,
     duplicate_rate |-> CASE kind = "dup-at-max" -> DUPLICATE_RATE_MAX
                          [] kind = "edge" -> DUPLICATE_RATE_MAX - 1
                          [] OTHER -> 300,
     policy_flag_rate |-> CASE kind = "flag-at-max" -> POLICY_FLAG_RATE_MAX
                            [] kind = "edge" -> POLICY_FLAG_RATE_MAX - 1
                            [] OTHER -> 50,
     indexed_rate |-> CASE kind = "indexed-low" -> INDEXED_RATE_MIN - 1
                        [] kind = "edge" -> INDEXED_RATE_MIN
                        [] OTHER -> 4100,
     publish_count |-> 12]

DailyHistory(n, base, bad, kind, skipped) ==
    [i \in 1..n |->
       DayEntry(i + (IF skipped # 0 /\ i > skipped THEN 1 ELSE 0),
                IF i = bad THEN kind ELSE base)]

InitScale ==
    /\ stateFile = <<>>
    /\ metricsFile = <<>>
    /\ pc = "idle"
    /\ \E limit \in Range(PUBLISH_STAGES), n \in 0..MaxDays, base \in {"good", "edge"},
          kind \in DayKinds :
         \E bad \in 0..n, skipped \in 0..Max(0, n - 1) :
           \E state \in {[default_state(0) EXCEPT
                             !.publish_limit = limit,
                             !.daily_history = DailyHistory(n, base, bad, kind, skipped)]} :
             run = [NoRun EXCEPT !.loaded = state, !.state = state]
    /\ fx = NoEffects
    /\ runs = 0
    /\ parked = <<>>
    /\ log = <<>>

Scale ==
    /\ run.status = "none"
    /\ \E scaled \in {maybe_scale_publish_limit(run.state)} :
         run' = [run EXCEPT !.status = "scaled", !.state = scaled.state,
                            !.scaled_to = scaled.scaled_to]
    /\ UNCHANGED <<stateFile, metricsFile, pc, fx, runs, log, parked>>

NextScale == Scale

SpecScale == InitScale /\ [][NextScale]_vars

\* ------------------------------------------------------------ properties
Returned == run.status = "returned"
Saved == stateFile[1]
FileRows(file) == IF file = <<>> THEN <<>> ELSE file[1].published
FileDisabled(file) == IF file = <<>> THEN {} ELSE Range(file[1].disabled_verticals)
FileFailures(file) ==
    IF file = <<>> THEN [v \in Verticals |-> 0] ELSE file[1].vertical_deploy_failures
AllRaised == \A n \in 1..Len(fx.publish_calls) : fx.publish_calls[n] = "raised"
Exhausted == Len(fx.publish_calls) = 3 /\ AllRaised
BriefsOf(v) == {i \in 1..Len(run.all_generated) : run.all_generated[i].topic.vertical = v}
RowsOf(v) == {i \in 1..Len(run.published_rows) : run.published_rows[i].vertical = v}

\* Run m of the log was a production run that generated content for v and
\* whose deployment failed on every attempt.
FailedFor(v, m) == log[m].mode = "production" /\ v \in log[m].generated /\ log[m].failed
ProductionBetween(i, k) == {m \in (i + 1)..(k - 1) : log[m].mode = "production"}
\* i, j, k are three consecutive production runs, each failed for v, the first
\* starting with v enabled and its failure counter at 0.
Streak(v, i, j, k) ==
    /\ i < j /\ j < k
    /\ ProductionBetween(i, j) = {} /\ ProductionBetween(j, k) = {}
    /\ FailedFor(v, i) /\ FailedFor(v, j) /\ FailedFor(v, k)
    /\ log[i].start_failures[v] = 0
    /\ v \notin log[i].start_disabled

\* C1: from failure counter 0 and enabled, three consecutive production runs
\* that generate content for a vertical and fail every deploy attempt leave it
\* in the persisted disabled_verticals after the third run, and without a
\* policy-rate disable not after the first or the second; every later run
\* keeps it out of active_verticals and neither ingests, generates nor
\* publishes for it.
C1_ThreeFailedRunsDisable ==
    \A v \in Verticals : \A i, j, k \in 1..Len(log) :
      Streak(v, i, j, k) =>
        /\ v \in log[k].end_disabled
        /\ \A m \in {i, j} : v \notin log[m].policy => v \notin log[m].end_disabled
        /\ \A m \in (k + 1)..Len(log) :
             /\ v \notin log[m].active
             /\ v \notin log[m].ingest
             /\ v \notin log[m].generated
             /\ v \notin log[m].published
        /\ (Len(log) = k /\ run.status = "running") =>
             /\ v \notin Range(run.active_verticals)
             /\ v \notin fx.ingest
             /\ BriefsOf(v) = {}
             /\ RowsOf(v) = {}

\* A fourth run, requested for every vertical, has returned after the streak.
C1_Witness ==
    /\ Len(log) >= 4
    /\ Returned /\ run.vertical = "all"
    /\ \E v \in Verticals : Streak(v, 1, 2, 3) /\ v \in log[3].end_disabled

\* C2: the publisher is called at most 3 times, no call follows one that
\* returned, deploy_attempts is the number of calls made; a production run
\* with a generated brief calls it at least once and 3 times when every call
\* raised; after a call that returned deploy_error is empty and published is
\* the number of rows that call returned.
C2_DeployLoop ==
    LET calls == fx.publish_calls
    IN  /\ Len(calls) <= 3
        /\ \A n \in 1..Len(calls) : calls[n] = "returned" => n = Len(calls)
        /\ run.deploy_attempts = Len(calls)
        /\ (calls # <<>>) => run.mode = "production" /\ run.all_generated # <<>>
        /\ (Returned /\ run.mode = "production" /\ run.all_generated # <<>>) =>
             /\ Len(calls) >= 1
             /\ AllRaised => Len(calls) = 3
             /\ ~AllRaised =>
                  /\ run.deploy_error = ""
                  /\ run.published_rows # <<>>
                  /\ run.published = Len(run.published_rows)

\* The second call was the first to return.
C2_Witness ==
    /\ Returned
    /\ fx.publish_calls = <<"raised", "returned">>
    /\ run.deploy_attempts = 2
    /\ run.published >= 1

\* C3: when all 3 deploy attempts raise, run() goes on to its end: the summary
\* has published 0 and deploy_attempts 3, the saved state holds the published
\* rows run() loaded, and the metrics record, the daily-history entry, the
\* budget and the disabled flags of the run are persisted.
C3_FailedDeployStillPersists ==
    /\ (Exhausted /\ ~Returned) => pc = "finish" /\ run.status = "running" /\ ENABLED FinishRun
    /\ (Exhausted /\ Returned) =>
         /\ run.published = 0
         /\ run.deploy_attempts = 3
         /\ run.deploy_error # ""
         /\ stateFile # <<>>
         /\ Saved.published = run.loaded.published
         /\ Len(Saved.published) = Len(FileRows(run.file_at_load))
         /\ \A i \in 1..Len(Saved.published) :
              /\ Saved.published[i].published_at < run.now
              /\ Saved.published[i].dedupe_hash =
                   FileRows(run.file_at_load)[i].dedupe_hash
         /\ Len(metricsFile) = run.metrics_at_load + 1
         /\ metricsFile[Len(metricsFile)] = run.metrics
         /\ run.metrics.timestamp = run.now /\ run.metrics.publish_count = 0
         /\ Saved.daily_history # <<>>
         /\ Saved.daily_history[Len(Saved.daily_history)].date = run.now
         /\ Saved.daily_history[Len(Saved.daily_history)].publish_count = 0
         /\ Saved.budget # <<>>
         /\ Saved.budget[1].month = MonthOf(run.now)
         /\ Saved.budget[1].spent_krw = run.budget.spent_krw
         /\ Range(Saved.disabled_verticals) = run.disabled
         /\ FileDisabled(run.file_at_load) \subseteq run.disabled
         /\ \A v \in Verticals :
              /\ Saved.vertical_deploy_failures[v] =
                   run.loaded.vertical_deploy_failures[v]
                     + (IF BriefsOf(v) # {} THEN 1 ELSE 0)
              /\ (BriefsOf(v) # {} /\ Saved.vertical_deploy_failures[v] >= 3)
                   => v \in Range(Saved.disabled_verticals)

\* A failed run over a history that already holds published rows, the run
\* that takes a vertical to its third failure.
C3_Witness ==
    /\ Exhausted /\ Returned
    /\ run.loaded.published # <<>>
    /\ \E v \in Verticals : BriefsOf(v) # {} /\ Saved.vertical_deploy_failures[v] = 3

\* Run m published a row of v in a deployment that succeeded.
PublishedFor(v, m) == v \in log[m].published
\* Run k disabled v by the deploy-failure count: enabled at the start of the
\* run, disabled at its end, and not by the policy rate.
DisabledByFailures(v, k) ==
    /\ v \notin log[k].start_disabled
    /\ v \in log[k].end_disabled
    /\ v \notin log[k].policy

\* C4: a production run whose deployment succeeds leaves failure counter 0 for
\* every vertical with a row published in it; a run disables a vertical by the
\* deploy-failure count only as the last of 3 failed runs for that vertical
\* with no successful publish of the vertical from the first to the last.
C4_SuccessResetsStreak ==
    /\ (Returned /\ run.mode = "production" /\ run.published_rows # <<>>) =>
         \A v \in Verticals : RowsOf(v) # {} => Saved.vertical_deploy_failures[v] = 0
    /\ \A v \in Verticals : \A m \in 1..Len(log) :
         PublishedFor(v, m) => log[m].end_failures[v] = 0
    /\ \A v \in Verticals : \A k \in 1..Len(log) :
         DisabledByFailures(v, k) =>
           \E i, j \in 1..k :
             /\ i < j /\ j < k
             /\ FailedFor(v, i) /\ FailedFor(v, j) /\ FailedFor(v, k)
             /\ \A m \in i..k : ~PublishedFor(v, m)

\* Two failed runs, a successful publish, then a third failed run: the
\* vertical is still enabled, its counter back at 1.
C4_Witness ==
    /\ Len(log) = 4
    /\ \E v \in Verticals :
         /\ FailedFor(v, 1) /\ FailedFor(v, 2) /\ PublishedFor(v, 3) /\ FailedFor(v, 4)
         /\ log[2].end_failures[v] = 2
         /\ log[3].end_failures[v] = 0
         /\ log[4].end_failures[v] = 1
         /\ v \notin log[4].end_disabled

\* C5 as stated: a dry-run leaves the published rows of the state file as
\* they were.
C5_DryRunKeepsFileRows ==
    (Returned /\ run.mode = "dry-run") =>
       Saved.published = FileRows(run.file_at_load)

\* C5: in a dry-run the publisher is never called, deploy_attempts is 0 and
\* deploy_error empty; no generated row is merged into the published
\* history: the saved rows are the rows of the state file after the load-time
\* migration, one for one; the failure counters are unchanged; published is
\* the number of generated briefs.
C5_DryRunFrame ==
    (run.mode = "dry-run" /\ run.status \in {"running", "returned"}) =>
       /\ fx.publish_calls = <<>>
       /\ run.deploy_attempts = 0
       /\ run.deploy_error = ""
       /\ pc # "deploy"
       /\ Returned =>
            /\ Saved.published = run.loaded.published
            /\ Saved.published =
                 migrate_published_category(
                   [published |-> FileRows(run.file_at_load)]).published
            /\ Len(Saved.published) = Len(FileRows(run.file_at_load))
            /\ \A i \in 1..Len(Saved.published) :
                 /\ Saved.published[i].dedupe_hash =
                      FileRows(run.file_at_load)[i].dedupe_hash
                 /\ Saved.published[i].slug = FileRows(run.file_at_load)[i].slug
                 /\ Saved.published[i].published_at =
                      FileRows(run.file_at_load)[i].published_at
            /\ Saved.vertical_deploy_failures = FileFailures(run.file_at_load)
            /\ run.published = Len(run.all_generated)
            /\ run.published = fx.briefs

\* A dry-run that generated a brief, over a state file with published rows
\* and a failure counter above 0.
C5_Witness ==
    /\ Returned /\ run.mode = "dry-run"
    /\ run.all_generated # <<>>
    /\ FileRows(run.file_at_load) # <<>>
    /\ \E v \in Verticals : FileFailures(run.file_at_load)[v] > 0

\* C6: a vertical in the disabled_verticals of the state file at the start of
\* a run is not in its active_verticals, whatever was requested, and nothing
\* is collected, approved, generated or published for it; a run requested for
\* one disabled vertical processes none, reports published 0, saves the state
\* and appends one metrics record.
C6_DisabledStayOut ==
    (run.status \in {"running", "returned"}) =>
       /\ \A v \in FileDisabled(run.file_at_load) :
            /\ v \notin Range(run.active_verticals)
            /\ v \notin fx.ingest
            /\ v \notin DOMAIN run.per_vertical
            /\ BriefsOf(v) = {}
            /\ RowsOf(v) = {}
            /\ v \notin DOMAIN run.publish_counts
       /\ (Returned /\ run.vertical \in FileDisabled(run.file_at_load)) =>
            /\ run.active_verticals = <<>>
            /\ fx.ingest = {}
            /\ fx.briefs = 0
            /\ fx.publish_calls = <<>>
            /\ run.candidate_count = 0
            /\ run.published = 0
            /\ fx.state_writes = 1
            /\ stateFile = <<run.state>>
            /\ fx.metrics_appends = 1
            /\ Len(metricsFile) = run.metrics_at_load + 1
            /\ metricsFile[Len(metricsFile)] = run.metrics

\* A run requested for the one vertical that the state file lists as disabled.
C6_Witness ==
    /\ Returned
    /\ run.vertical = VERTICAL_FINANCE
    /\ VERTICAL_FINANCE \in FileDisabled(run.file_at_load)
    /\ Len(metricsFile) >= 2

\* The rate of C7, from the counts the run reports for the vertical.
AtPolicyRate(v) ==
    100 * run.per_vertical[v].policy_flag_count
       >= 3 * (IF run.per_vertical[v].candidate_count >= 1
               THEN run.per_vertical[v].candidate_count ELSE 1)

\* C7: in either mode and whatever the deployment did, a processed vertical
\* whose policy_flag_count / max(1, candidate_count) is at least 0.03 is in the
\* persisted disabled_verticals at the end of the run; one below the rate is
\* there only if the third failed deployment in a row put it there.
C7_PolicyRateDisable ==
    Returned =>
      \A v \in DOMAIN run.per_vertical :
        /\ AtPolicyRate(v) => v \in Range(Saved.disabled_verticals)
        /\ (~AtPolicyRate(v) /\ v \in Range(Saved.disabled_verticals)) =>
             /\ Exhausted
             /\ BriefsOf(v) # {}
             /\ Saved.vertical_deploy_failures[v] >= 3

\* A production run whose deployment failed and that disabled a vertical at
\* five flagged candidates in a hundred.
C7_Witness ==
    /\ Returned /\ run.mode = "production" /\ Exhausted
    /\ \E v \in DOMAIN run.per_vertical :
         /\ run.per_vertical[v].policy_flag_count = 1
         /\ run.per_vertical[v].candidate_count = 20
         /\ v \in Range(Saved.disabled_verticals)
         /\ Saved.vertical_deploy_failures[v] < 3

\* A processed vertical with a flagged candidate, below the rate, not disabled.
C7_BelowRate ==
    /\ Returned
    /\ \E v \in DOMAIN run.per_vertical :
         /\ run.per_vertical[v].policy_flag_count >= 1
         /\ ~AtPolicyRate(v)
         /\ v \notin Range(Saved.disabled_verticals)

\* C8: for two or more listed verticals and any publish limit, every quota is
\* at least 1, the quotas sum to max(number of verticals, publish limit), two
\* quotas differ by at most 1, and an earlier vertical never gets less than a
\* later one.
C8_QuotaShares ==
    (run.status = "allocated" /\ Len(run.active_verticals) >= 2) =>
       LET listed == run.active_verticals
           n == Len(listed)
           q == run.quotas
       IN  /\ DOMAIN q = Range(listed)
           /\ \A v \in DOMAIN q : q[v] >= 1
           /\ SumOver(q, DOMAIN q) = (IF n >= run.publish_limit THEN n ELSE run.publish_limit)
           /\ \A v, w \in DOMAIN q : q[v] - q[w] <= 1
           /\ \A i, j \in 1..n : i < j => q[listed[i]] >= q[listed[j]]

\* Three verticals share a limit of 7: 3, 2, 2.
C8_Witness ==
    /\ run.status = "allocated"
    /\ Len(run.active_verticals) = 3
    /\ run.publish_limit = 7
    /\ run.quotas[run.active_verticals[1]] = 3
    /\ run.quotas[run.active_verticals[3]] = 2

\* C9 as stated: with one active vertical and an integer max_publish, the
\* quota of that vertical is max(1, max_publish).
C9_SingleQuota ==
    (run.status \in {"running", "returned"} /\ Len(run.active_verticals) = 1
       /\ run.max_publish # <<>>) =>
       run.quotas[run.active_verticals[1]] =
          (IF run.max_publish[1] >= 1 THEN run.max_publish[1] ELSE 1)

\* C10: a run requested with a name that is neither "all" nor a vertical
\* raises ValueError with nothing done: the state file and the metrics log are
\* as they were, and there was no ingestion, no brief, no artifact and no
\* publish call.
C10_UnknownNameRejected ==
    (run.status # "none" /\ run.vertical \notin Verticals \cup {"all"}) =>
       /\ run.status = "ValueError"
       /\ pc = "idle"
       /\ stateFile = run.file_at_load
       /\ Len(metricsFile) = run.metrics_at_load
       /\ fx.ingest = {}
       /\ fx.briefs = 0
       /\ fx.artifacts = 0
       /\ fx.publish_calls = <<>>
       /\ fx.state_writes = 0
       /\ fx.metrics_appends = 0

\* An unknown name after a run that left a state file and a metrics record.
C10_Witness ==
    /\ run.status = "ValueError"
    /\ run.vertical = "crypto"
    /\ stateFile # <<>>
    /\ metricsFile # <<>>

\* The daily history maybe_scale_publish_limit was given and its last 7 entries.
GivenHistory == run.loaded.daily_history
TrailingDays == {i \in 1..Len(GivenHistory) : i > Len(GivenHistory) - 7}
DayQualifies(row) ==
    /\ row.duplicate_rate < 500
    /\ row.policy_flag_rate < 100
    /\ row.indexed_rate >= 3500
StreakMet == Len(GivenHistory) >= 7 /\ \A i \in TrailingDays : DayQualifies(GivenHistory[i])

\* C11: maybe_scale_publish_limit changes publish_limit only when the daily
\* history has at least 7 entries and each of the last 7 has duplicate_rate
\* < 0.05, policy_flag_rate < 0.01 and indexed_rate >= 0.35; then a limit of
\* 12 becomes exactly 18 and 18 is returned; when one of the 7 breaks a
\* threshold (a rate equal to a ceiling breaks it) the limit is unchanged and
\* None is returned.  Nothing else of the state changes.
C11_ScaleRule ==
    run.status = "scaled" =>
       /\ run.state.publish_limit # run.loaded.publish_limit => StreakMet
       /\ (StreakMet /\ run.loaded.publish_limit = 12) =>
            run.state.publish_limit = 18 /\ run.scaled_to = <<18>>
       /\ ~StreakMet =>
            run.state.publish_limit = run.loaded.publish_limit /\ run.scaled_to = <<>>
       /\ run.state = [run.loaded EXCEPT !.publish_limit = run.state.publish_limit]

\* Exactly 7 days, each one step inside every threshold, promote 12 to 18.
C11_Witness ==
    /\ run.status = "scaled"
    /\ Len(GivenHistory) = 7
    /\ \A i \in 1..7 : GivenHistory[i].duplicate_rate = 499
                         /\ GivenHistory[i].indexed_rate = 3500
    /\ run.loaded.publish_limit = 12
    /\ run.state.publish_limit = 18
    /\ run.scaled_to = <<18>>

\* One of the last 7 days has a duplicate rate of exactly 0.05: no promotion.
C11_AtCeiling ==
    /\ run.status = "scaled"
    /\ Len(GivenHistory) >= 7
    /\ \E i \in TrailingDays : GivenHistory[i].duplicate_rate = 500
    /\ run.loaded.publish_limit = 12
    /\ run.state.publish_limit = 12
    /\ run.scaled_to = <<>>

\* The last 7 entries are dated on 7 consecutive days.
ContiguousDays ==
    \A i \in TrailingDays :
       (i + 1) \in TrailingDays => GivenHistory[i + 1].date = GivenHistory[i].date + 1

\* C13 as stated: a history whose last 7 entries meet every threshold but
\* are not dated on 7 consecutive days does not promote.
C13_ContiguousWindow ==
    (run.status = "scaled" /\ StreakMet /\ ~ContiguousDays) =>
       run.state.publish_limit = run.loaded.publish_limit /\ run.scaled_to = <<>>

FileLimit(file) == IF file = <<>> THEN 12 ELSE file[1].publish_limit

\* C12: the persisted publish_limit never decreases; a run leaves it as it
\* was or raises it by one stage (12 to 18, 18 to 24); the value returned on
\* promotion is the persisted new limit and without promotion the limit is
\* unchanged; at 24 no run changes it.
C12_StagedLimit ==
    Returned =>
       LET before == FileLimit(run.file_at_load)
           after == Saved.publish_limit
       IN  /\ after >= before
           /\ \/ after = before
              \/ before = 12 /\ after = 18
              \/ before = 18 /\ after = 24
           /\ run.scaled_to # <<>> => run.scaled_to[1] = after /\ after > before
           /\ run.scaled_to = <<>> => after = before
           /\ before = 24 => after = 24 /\ run.scaled_to = <<>>

\* A run that starts at 24 with the last 7 days all within the thresholds,
\* after a run that went from 18 to 24.
C12_Witness ==
    /\ Returned
    /\ FileLimit(run.file_at_load) = 24
    /\ Len(Saved.daily_history) >= 7
    /\ \A i \in 1..Len(Saved.daily_history) :
         i > Len(Saved.daily_history) - 7 => DayQualifies(Saved.daily_history[i])
    /\ Saved.publish_limit = 24

\* A run that raised the limit from 18 to 24.
C12_SecondStage ==
    /\ Returned
    /\ FileLimit(run.file_at_load) = 18
    /\ Saved.publish_limit = 24
    /\ run.scaled_to = <<24>>

\* Call i of SpecBudget: what was left of the month's limit when it was made.
RemainingAt(i) == log[i].limit * 100 - log[i].spent
RichAt(i) == log[i].engine = "gemini"

\* C14: with the rich engine requested, a call made when spent + 120 exceeds
\* the limit returns template/balanced, and so does every later call on that
\* budget that requests the rich engine.
C14_TemplateFromThenOn ==
    \A i, j \in 1..Len(log) :
      (i <= j /\ RemainingAt(i) < 12000 /\ log[j].requested_engine = "gemini") =>
         /\ log[j].engine = "template"
         /\ log[j].quality = "balanced"
         /\ log[j].spent = log[i].spent

\* A rich generation takes spent past limit - 120; the two calls after it
\* request the rich engine and get the template.
C14_Witness ==
    /\ Len(log) >= 3
    /\ RichAt(1) /\ log[1].spent_after > log[1].spent
    /\ RemainingAt(2) < 12000 /\ RemainingAt(2) > 0
    /\ \A j \in {2, 3} : log[j].requested_engine = "gemini" /\ log[j].engine = "template"

\* C15: a call that returns the rich engine at a tier leaves at least that
\* tier's estimate (220 premium, 120 balanced) between spent and the limit;
\* rich/premium is returned only when premium was requested and spent is
\* below 0.85 of the limit; the template engine comes with the balanced tier.
C15_TierWithinRemaining ==
    \A i \in 1..Len(log) :
      /\ log[i].engine \in {"gemini", "template"}
      /\ log[i].quality \in {"premium", "balanced"}
      /\ (RichAt(i) /\ log[i].quality = "premium") =>
           /\ RemainingAt(i) >= 22000
           /\ log[i].requested_quality = "premium"
           /\ log[i].spent * 100 < 85 * (log[i].limit * 100)
      /\ (RichAt(i) /\ log[i].quality = "balanced") => RemainingAt(i) >= 12000
      /\ RichAt(i) => log[i].requested_engine = "gemini"
      /\ log[i].engine = "template" => log[i].quality = "balanced"

\* Premium is requested with more than 220 left but spent at 0.85 of the
\* limit: the call is served by the rich engine at the balanced tier.
C15_Witness ==
    \E i \in 1..Len(log) :
      /\ log[i].requested_engine = "gemini" /\ log[i].requested_quality = "premium"
      /\ RemainingAt(i) >= 22000
      /\ log[i].spent * 100 = 85 * (log[i].limit * 100)
      /\ RichAt(i) /\ log[i].quality = "balanced"

\* Premium is requested one hundredth below 0.85 of the limit and is served.
C15_JustBelowAlert ==
    \E i \in 1..Len(log) :
      /\ log[i].spent * 100 = 85 * (log[i].limit * 100) - 100
      /\ RichAt(i) /\ log[i].quality = "premium"

\* C16: spent is above the limit by no more than the cost of one rich
\* generation: a generation that adds a cost is a rich one started with spent
\* below the limit, and a call made with spent at or above the limit adds
\* nothing.
C16_BoundedOverrun ==
    /\ \A i \in 1..Len(log) :
         /\ log[i].spent_after # log[i].spent =>
              /\ log[i].engine_used = "gemini"
              /\ log[i].spent < log[i].limit * 100
              /\ log[i].spent_after = log[i].spent + log[i].cost
         /\ RichAt(i) => log[i].spent < log[i].limit * 100
         /\ log[i].spent >= log[i].limit * 100 => log[i].spent_after = log[i].spent
         /\ log[i].spent_after # log[i].spent =>
              log[i].spent_after - log[i].limit * 100 < log[i].cost
    /\ run.budget.limit_krw * 100 < run.budget.spent_krw =>
         \E i \in 1..Len(log) :
           /\ log[i].engine_used = "gemini"
           /\ run.budget.spent_krw - run.budget.limit_krw * 100 <= log[i].cost

\* A rich generation that cost more than its estimate took spent above the
\* limit; the next call asks for the rich engine and adds nothing.
C16_Witness ==
    /\ Len(log) >= 2
    /\ \E i \in 1..(Len(log) - 1) :
         /\ log[i].engine_used = "gemini"
         /\ log[i].spent < log[i].limit * 100
         /\ log[i].spent_after > log[i].limit * 100
         /\ log[i + 1].requested_engine = "gemini"
         /\ log[i + 1].spent_after = log[i + 1].spent

\* The selector's choice behind a brief: the rich engine was chosen when the
\* brief is tagged gemini or template-fallback.
ChoseRich(payload) == payload.generation_engine \in {"gemini", "template-fallback"}
TierRank(payload) ==
    IF ~ChoseRich(payload) THEN 0
    ELSE IF payload.quality_tier = "balanced" THEN 1 ELSE 2
WithinEstimate(payload) ==
    payload.generation_engine = "gemini" =>
       payload.generation_cost_krw
          <= (IF payload.quality_tier = "premium" THEN 22000 ELSE 12000)
\* The month of the run in progress, and the runs of the log in that month.
RunMonth == run.budget.month
MonthRuns == {m \in 1..Len(log) : log[m].budget.month = RunMonth}

\* C17: when every rich generation of the month cost no more than the
\* estimate of its tier and the limit did not change, spent is at most the
\* limit at the end of a run; every approved topic gets a brief, at a tier
\* that only goes down within the run: premium, then balanced, then template.
C17_WithinLimit ==
    /\ Returned =>
         ((\A m \in MonthRuns :
              /\ log[m].budget.limit_krw = run.budget.limit_krw
              /\ \A i \in 1..Len(log[m].payloads) : WithinEstimate(log[m].payloads[i]))
          => /\ run.budget.spent_krw <= run.budget.limit_krw * 100
             /\ Saved.budget[1].spent_krw <= Saved.budget[1].limit_krw * 100)
    /\ run.status \in {"running", "returned"} =>
         /\ \A v \in DOMAIN run.per_vertical :
              /\ run.per_vertical[v].generated_count = run.per_vertical[v].approved_count
              /\ Cardinality(BriefsOf(v)) = run.per_vertical[v].approved_count
         /\ \A i, j \in 1..Len(run.all_generated) :
              i < j => TierRank(run.all_generated[i].payload)
                          >= TierRank(run.all_generated[j].payload)

\* Premium requested under 300 KRW: the three topics are served premium at
\* 140, balanced at 80 and by the template; spent ends at 220.
C17_Witness ==
    /\ Returned
    /\ run.quality_tier_requested = "premium"
    /\ run.budget.limit_krw = 300
    /\ Len(run.all_generated) = 3
    /\ TierRank(run.all_generated[1].payload) = 2
    /\ TierRank(run.all_generated[2].payload) = 1
    /\ TierRank(run.all_generated[3].payload) = 0
    /\ run.all_generated[3].payload.generation_engine = "template"
    /\ Saved.budget[1].spent_krw = 22000

\* A generation above its estimate: spent ends above the limit.
C17_AboveEstimate ==
    /\ Returned
    /\ \A m \in MonthRuns : log[m].budget.limit_krw = run.budget.limit_krw
    /\ Saved.budget[1].spent_krw > Saved.budget[1].limit_krw * 100

\* What the month had spent when the run loaded its state.
FileSpent ==
    IF run.file_at_load = <<>> THEN 0
    ELSE IF run.file_at_load[1].budget = <<>> THEN 0
    ELSE IF run.file_at_load[1].budget[1].month # RunMonth THEN 0
    ELSE run.file_at_load[1].budget[1].spent_krw
RichCosts ==
    [i \in 1..Len(run.all_generated) |->
       IF run.all_generated[i].payload.generation_engine = "gemini"
       THEN run.all_generated[i].payload.generation_cost_krw ELSE 0]

\* C18: spent at the end of a run is spent at its start plus the reported
\* costs, none negative, of the briefs tagged with the rich engine; a brief
\* tagged template or template-fallback adds nothing, and a run with the
\* template engine requested leaves spent as it was.
C18_OnlyRichCosts ==
    run.status \in {"running", "returned"} =>
       /\ \A i \in DOMAIN RichCosts : RichCosts[i] >= 0
       /\ run.budget.spent_krw = FileSpent + SumOver(RichCosts, DOMAIN RichCosts)
       /\ run.generation_engine_requested = "template" =>
            /\ run.budget.spent_krw = FileSpent
            /\ \A i \in 1..Len(run.all_generated) :
                 run.all_generated[i].payload.generation_engine = "template"
       /\ Returned => Saved.budget[1].spent_krw = run.budget.spent_krw

\* A run in a month that had already spent: the rich engine is requested,
\* the collaborator is down, every brief falls back and spent stays.
C18_Witness ==
    /\ Returned
    /\ FileSpent > 0
    /\ run.generation_engine_requested = "gemini"
    /\ run.all_generated # <<>>
    /\ \A i \in 1..Len(run.all_generated) :
         run.all_generated[i].payload.generation_engine = "template-fallback"
    /\ Saved.budget[1].spent_krw = FileSpent

\* The template engine is requested in a month that had already spent.
C18_TemplateRequested ==
    /\ Returned
    /\ FileSpent > 0
    /\ run.generation_engine_requested = "template"
    /\ run.all_generated # <<>>
    /\ Saved.budget[1].spent_krw = FileSpent

\* The call of SpecApprove and what it returned.
Given == log[1]
Result == log[2]
GivenHashes == {Given.history_rows[k].dedupe_hash : k \in 1..Len(Given.history_rows)}
InGivenHistory(i) == Given.candidates[i].title.key \in GivenHashes
\* The candidate list without candidate i, and the result on that list.
Without(i) ==
    [k \in 1..(Len(Given.candidates) - 1) |->
       IF k < i THEN Given.candidates[k] ELSE Given.candidates[k + 1]]
ResultWithout(i) == approve_topics(Without(i), Given.history_rows, Given.max_count)
\* The loop reaches candidate i: fewer than max_count were approved before it.
Examined(i) ==
    Len(approve_topics(SubSeq(Given.candidates, 1, i - 1), Given.history_rows,
                       Given.max_count).approved) < Given.max_count
\* What a candidate whose hash is in the history does to the result.
CountedAsDuplicate(i) ==
    /\ \A k \in 1..Len(Result.approved) :
         Result.approved[k].dedupe_hash # Given.candidates[i].title.key
    /\ Result.stats.duplicate_count = ResultWithout(i).stats.duplicate_count + 1
    /\ Result.stats.policy_flag_count = ResultWithout(i).stats.policy_flag_count
    /\ Result.stats.blocked_count = ResultWithout(i).stats.blocked_count
    /\ Result.approved = ResultWithout(i).approved

ApprovedHash(i) == run.all_generated[i].topic.dedupe_hash
LoadedHashes == {run.loaded.published[k].dedupe_hash : k \in 1..Len(run.loaded.published)}

\* C20: the topics approved in one run, over all its verticals, have
\* pairwise distinct dedupe hashes, and none has the dedupe hash of a row of
\* the published history loaded at the start of the run.
C20_ApprovedHashesUnique ==
    run.status \in {"running", "returned"} =>
       /\ \A i, j \in 1..Len(run.all_generated) : i # j => ApprovedHash(i) # ApprovedHash(j)
       /\ \A i \in 1..Len(run.all_generated) : ApprovedHash(i) \notin LoadedHashes
       /\ \A v \in DOMAIN run.per_vertical :
            Cardinality(BriefsOf(v)) = run.per_vertical[v].approved_count

\* Over a history with published rows, two verticals carry the shared story:
\* the first has it approved, the second has it dropped as a duplicate along
\* with a topic of the history and the restyled copy.
C20_Witness ==
    /\ Returned
    /\ run.loaded.published # <<>>
    /\ \E i \in 1..Len(run.all_generated) :
         /\ ApprovedHash(i) = "wire-1"
         /\ run.all_generated[i].topic.vertical = "ai_tech"
    /\ VERTICAL_FINANCE \in DOMAIN run.per_vertical
    /\ run.per_vertical[VERTICAL_FINANCE].candidate_count = 3
    /\ run.per_vertical[VERTICAL_FINANCE].duplicate_count = 3
    /\ run.per_vertical[VERTICAL_FINANCE].approved_count = 0

\* What candidate i of the call is compared with: the titles and hashes of
\* the given history followed by those of the candidates approved before it.
ApprovedBefore(i) ==
    approve_topics(SubSeq(Given.candidates, 1, i - 1), Given.history_rows,
                   Given.max_count).approved
TitlesBefore(i) ==
    HistoryTitles(Given.history_rows)
      \o [k \in 1..Len(ApprovedBefore(i)) |-> ApprovedBefore(i)[k].title]
HashesBefore(i) ==
    GivenHashes \cup {ApprovedBefore(i)[k].dedupe_hash : k \in 1..Len(ApprovedBefore(i))}
NearIn(i, titles) ==
    \E k \in 1..Len(titles) :
       story_of(Given.candidates[i].title) = story_of(titles[k])
\* Candidate i is the one more topic approved once the loop has passed it.
Approves(i) ==
    Len(approve_topics(SubSeq(Given.candidates, 1, i), Given.history_rows,
                       Given.max_count).approved) = Len(ApprovedBefore(i)) + 1

C21_BeyondWindow ==
    /\ Len(log) = 2
    /\ Len(Given.history_rows) = NEAR_DUP_WINDOW + 1
    /\ Given.history_rows[1].title = Wording(0, 0)
    /\ Given.candidates = <<WindowCandidate(0, 1)>>
    /\ Len(Result.approved) = 1
    /\ Result.stats.duplicate_count = 0

\* C22: when approve_topics stops at max_count approvals, the candidates
\* after the cutoff add to no count, candidate_count included:
\* candidate_count is the number of candidates the loop examined.
C22_CountsSeenOnly ==
    Len(log) = 2 =>
       Result.stats.candidate_count =
          Cardinality({i \in 1..Len(Given.candidates) : Examined(i)})

C23_FlaggedNotBlocked ==
    /\ Len(log) = 2
    /\ Given.candidates[1].vertical = "ai_tech"
    /\ Given.candidates[1].advice = "title"
    /\ Given.candidates[1].shouting /\ Given.candidates[1].exaggerated
    /\ Given.candidates[1].words = 3
    /\ Result.stats.policy_flag_count = 1
    /\ Result.stats.blocked_count = 0
    /\ Result.approved[1].title = Given.candidates[1].title

\* C24: the published history of the state file holds at most one row per
\* path after every run.
C24_OneRowPerPath ==
    \A i, j \in 1..Len(FileRows(stateFile)) :
       i # j => FileRows(stateFile)[i].path # FileRows(stateFile)[j].path

\* The call of SpecMerge and what was returned.
Existing == log[1].existing_rows
New == log[1].new_rows
Merged == log[2]
\* The existing row a new row is merged onto: the last one with the path.
PriorAt(path) ==
    LET at == {i \in 1..Len(Existing) : Existing[i].path = path}
    IN  IF at = {} THEN <<>> ELSE <<Existing[CHOOSE i \in at : \A j \in at : j <= i]>>
NewAt(path) == {i \in 1..Len(New) : New[i].path = path}
\* The legacy paths handed in for a path: those of the existing row, then
\* those of the new rows in their order.
RECURSIVE LegacyOfNew(_, _)
LegacyOfNew(path, i) ==
    IF i > Len(New) THEN <<>>
    ELSE (IF New[i].path = path THEN New[i].legacy_paths ELSE <<>>)
           \o LegacyOfNew(path, i + 1)
LegacyGiven(path) ==
    (IF PriorAt(path) = <<>> THEN <<>> ELSE PriorAt(path)[1].legacy_paths)
      \o LegacyOfNew(path, 1)
FirstAt(s, x) == CHOOSE i \in 1..Len(s) : s[i] = x /\ \A j \in 1..(i - 1) : s[j] # x
\* out lists each entry of given once, in the order of first appearance,
\* but for the empty entries and the path itself.
OrderedUnion(out, given, path) ==
    /\ Range(out) = Range(given) \ {<<>>, path}
    /\ \A i, j \in 1..Len(out) :
         i < j => out[i] # out[j] /\ FirstAt(given, out[i]) < FirstAt(given, out[j])

\* C25: after a merge every path of a new row is the path of exactly one
\* row; that row has the fields of the last new row with the path, and its
\* legacy_paths list once each, in the order of first appearance, the legacy
\* paths of the existing row it replaces followed by those of the new rows
\* with the path, without the empty entries and without the path itself.
C25_MergeOntoExisting ==
    Len(log) >= 2 =>
       \A path \in {New[i].path : i \in 1..Len(New)} \ {<<>>} :
          LET at == {k \in 1..Len(Merged) : Merged[k].path = path}
              last == CHOOSE i \in NewAt(path) : \A j \in NewAt(path) : j <= i
          IN  /\ Cardinality(at) = 1
              /\ \A k \in at :
                   /\ [Merged[k] EXCEPT !.legacy_paths = <<>>]
                        = [New[last] EXCEPT !.legacy_paths = <<>>]
                   /\ OrderedUnion(Merged[k].legacy_paths, LegacyGiven(path), path)

\* A new row lands on an existing row with two legacy paths and brings one
\* of them again, a third one, an empty entry and its own path: the merged
\* row lists the three legacy paths.
C25_Witness ==
    /\ Len(log) >= 2
    /\ \E i \in 1..Len(New), k \in 1..Len(Merged) :
         /\ PriorAt(New[i].path) # <<>>
         /\ PriorAt(New[i].path)[1].legacy_paths = <<LegacyB, LegacyA>>
         /\ Cardinality(NewAt(New[i].path)) = 2
         /\ Merged[k].path = New[i].path
         /\ Merged[k].title = "new"
         /\ Merged[k].legacy_paths = <<LegacyB, LegacyA, LegacyC>>

\* C26: merging the same new rows into the result of a merge gives that
\* result again: the same rows in the same order with the same legacy paths.
C26_MergeIdempotent ==
    Len(log) = 3 => log[3] = log[2]

\* The second merge is made on a result of two rows, one of them carrying
\* three legacy paths, and returns it.
C26_Witness ==
    /\ Len(log) = 3
    /\ Len(log[2]) = 2
    /\ \E k \in 1..2 : Len(log[2][k].legacy_paths) = 3
    /\ Len(Existing) = 2 /\ Len(New) = 2
    /\ log[3] = log[2]

\* C28: after any sequence of runs, whatever the order of their dates, the
\* daily history of the state file holds at most one entry per date and at
\* most MAX_DAILY_HISTORY entries.
C28_OneEntryPerDate ==
    stateFile # <<>> =>
       LET rows == stateFile[1].daily_history
       IN  /\ Len(rows) <= MAX_DAILY_HISTORY
           /\ \A i, j \in 1..Len(rows) : i # j => rows[i].date # rows[j].date

\* C30: in every run every active vertical has generated_count equal to
\* approved_count and at most its quota, whatever the budget and whether or
\* not generation fell back to the template; the published total of the run
\* is at most the greater of the number of active verticals and the publish
\* limit of the run (max_publish when it is given and not 0, else the
\* persisted limit).
C30_WithinQuota ==
    run.status \in {"running", "returned"} =>
       /\ DOMAIN run.per_vertical = Range(run.active_verticals)
       /\ \A v \in DOMAIN run.per_vertical :
            /\ run.per_vertical[v].generated_count = run.per_vertical[v].approved_count
            /\ run.per_vertical[v].generated_count = Cardinality(BriefsOf(v))
            /\ run.per_vertical[v].generated_count <= run.quotas[v]
       /\ Len(run.all_generated) <= Max(Len(run.active_verticals), run.publish_limit)
       /\ Returned => run.published <= Max(Len(run.active_verticals), run.publish_limit)

\* A run of the whole site at a limit of 4 with the collaborator down: the
\* quotas are 2, 1 and 1, every vertical fills its quota with template
\* fallbacks and 4 briefs are published.
C30_Witness ==
    /\ Returned
    /\ run.publish_limit = 4
    /\ Len(run.active_verticals) = 3
    /\ run.quotas["ai_tech"] = 2
    /\ \A v \in Verticals :
         /\ v \in DOMAIN run.per_vertical
         /\ run.per_vertical[v].generated_count = run.quotas[v]
    /\ \A i \in 1..Len(run.all_generated) :
         run.all_generated[i].payload.generation_engine = "template-fallback"
    /\ run.published = 4

\* A run of one vertical at a limit of -1: one brief is published.
C30_NegativeLimit ==
    /\ Returned
    /\ run.publish_limit = -1
    /\ run.active_verticals = <<VERTICAL_FINANCE>>
    /\ run.published = 1

\* C27: every publish() call either returns with the live site holding the
\* staged version (what the site held before the call and the page of the
\* call) or raises with the live site holding exactly what it held before
\* the call, whichever step failed.
C27_AllOrNothing ==
    \A i \in 1..Len(log) :
       \/ /\ log[i].outcome = "returned"
          /\ log[i].site = <<PagesOf(log[i].pre) \cup {log[i].page}>>
       \/ /\ log[i].outcome = "raised"
          /\ log[i].site = log[i].pre

\* ---------------------------------------------------------------- C29
\* The run of the process that waits, when there is one.
Others == {parked[i].run : i \in 1..Len(parked)}

\* Both runs loaded the state file before either saved it: they read the
\* same file, and the metrics log, to which every save is followed by an
\* append, had the same length at both loads.
Overlapped(a, b) ==
    /\ a.status = "returned"
    /\ b.status = "returned"
    /\ a.file_at_load = b.file_at_load
    /\ a.metrics_at_load = b.metrics_at_load

HistoryDates(state) ==
    {state.daily_history[i].date : i \in 1..Len(state.daily_history)}

\* C29: when two runs on one state file both load it before either saves,
\* both return normally, and the file is then what the run that saved last
\* computed from its own load: the daily-history entry of the other run is
\* not in it, its published rows and failure counters are those of the last
\* saver alone, while the metrics log holds the lines of both runs.
C29_LastSaveWins ==
    \A other \in Others :
        Overlapped(run, other) =>
            \E last \in {run, other} :
            \E lost \in {run, other} \ {last} :
                /\ stateFile = <<last.state>>
                /\ lost.now \notin HistoryDates(Saved)
                /\ last.now \in HistoryDates(Saved)
                /\ \A v \in Verticals :
                      Saved.vertical_deploy_failures[v] <=
                        FileFailures(last.file_at_load)[v] + 1
                /\ \A i \in 1..Len(Saved.published) :
                      \/ Saved.published[i].published_at = last.now
                      \/ \E j \in 1..Len(FileRows(last.file_at_load)) :
                            FileRows(last.file_at_load)[j].dedupe_hash =
                              Saved.published[i].dedupe_hash
                /\ Len(metricsFile) = last.metrics_at_load + 2

\* Two overlapping runs have returned; the one that saved first had
\* published rows and the file, written last by a dry run, holds none.
C29_Witness ==
    \E other \in Others :
        /\ Overlapped(run, other)
        /\ \E lost \in {run, other} :
              /\ stateFile # <<lost.state>>
              /\ lost.state.published # <<>>
              /\ Saved.published = <<>>

\* ---------------------------------------------------------------- C31
\* C31: a production run whose deployment failed leaves every failure
\* counter at its value at the load plus 1 for the verticals with a
\* generated brief and plus 0 for the others, after 3 raising attempts as
\* well; a production run that generated nothing calls no publisher and
\* leaves every counter as loaded.
C31_OnePerFailedRun ==
    /\ \A n \in 1..Len(log) :
          /\ (log[n].mode = "production" /\ log[n].failed) =>
                \A v \in Verticals :
                    log[n].end_failures[v] =
                      log[n].start_failures[v] +
                        (IF v \in log[n].generated THEN 1 ELSE 0)
          /\ (log[n].mode = "production" /\ log[n].generated = {}) =>
                /\ ~log[n].failed
                /\ log[n].end_failures = log[n].start_failures
    /\ (Returned /\ run.mode = "production" /\ run.all_generated = <<>>) =>
          /\ fx.publish_calls = <<>>
          /\ run.deploy_attempts = 0
    /\ (Returned /\ run.mode = "production" /\ Exhausted) =>
          \A v \in Verticals :
              run.state.vertical_deploy_failures[v] =
                run.loaded.vertical_deploy_failures[v] +
                  (IF BriefsOf(v) # {} THEN 1 ELSE 0)

\* A run of one vertical failed all 3 attempts with a counter above 0 for
\* another vertical that stays as it was, and a production run that
\* generated nothing kept a counter above 0.
C31_Witness ==
    /\ \E n \in 1..Len(log) :
          /\ log[n].mode = "production"
          /\ log[n].failed
          /\ \E v, w \in Verticals :
                /\ v \in log[n].generated
                /\ w \notin log[n].generated
                /\ log[n].start_failures[w] > 0
                /\ log[n].end_failures[w] = log[n].start_failures[w]
    /\ Returned
    /\ run.mode = "production"
    /\ run.all_generated = <<>>
    /\ \E v \in Verticals : run.state.vertical_deploy_failures[v] > 0

\* ---------------------------------------------------------------- C32
\* The verticals a failed deployment of run n brought to the disable count.
DeployDisabled(n) ==
    {v \in log[n].generated :
        log[n].failed /\ log[n].end_failures[v] >= DEPLOY_FAILURE_DISABLE_COUNT}

\* The place of a vertical name in alphabetical order.
Place(v) == CHOOSE i \in 1..Len(ALL_VERTICALS) : ALL_VERTICALS[i] = v

\* C32: the disabled_verticals a run persists lists, in ascending order and
\* once each, the verticals disabled in the state it loaded, those its
\* failed deployment brought to the disable count and those its policy-rate
\* check hit; the next run loads that list, so no run removes a vertical
\* from it and no later run processes a vertical that is in it.
C32_DisabledUnion ==
    /\ \A n \in 1..Len(log) :
          /\ log[n].end_disabled =
                log[n].start_disabled \cup DeployDisabled(n) \cup log[n].policy
          /\ log[n].active \cap log[n].start_disabled = {}
          /\ \A m \in 1..Len(log) :
                m < n => /\ log[m].end_disabled \subseteq log[n].start_disabled
                         /\ log[m].end_disabled \cap log[n].active = {}
          /\ n > 1 => log[n].start_disabled = log[n - 1].end_disabled
    /\ (Returned /\ pc = "idle") =>
          /\ Range(Saved.disabled_verticals) = log[Len(log)].end_disabled
          /\ \A i, j \in 1..Len(Saved.disabled_verticals) :
                i < j => Place(Saved.disabled_verticals[i]) <
                           Place(Saved.disabled_verticals[j])

\* A run loaded a disabled vertical, its failed deployment brought others to
\* the disable count and its policy-rate check hit a different set: every
\* vertical is disabled at its end.
C32_Witness ==
    \E n \in 1..Len(log) :
        /\ log[n].start_disabled # {}
        /\ DeployDisabled(n) # {}
        /\ log[n].policy # {}
        /\ log[n].end_disabled = Verticals
        /\ log[n].policy # DeployDisabled(n)

\* ---------------------------------------------------------------- C33
\* C33: a run that has returned wrote the state file once and then the
\* metrics log once, and a run in progress wrote neither; a step changes
\* the metrics log only by adding one record at its end, the metrics of the
\* summary of the run that returns in that step, and leaves the records
\* before it as they were; so the log holds one record per returned run, in
\* the order of the runs.
C33_AppendOnly ==
    /\ [](/\ Len(metricsFile) = Len(log)
          /\ \A n \in 1..Len(metricsFile) : metricsFile[n].timestamp = n
          /\ (Returned /\ pc = "idle") =>
                /\ fx.file_ops = <<"save_state", "append_metrics">>
                /\ fx.state_writes = 1
                /\ fx.metrics_appends = 1
                /\ stateFile = <<run.state>>
                /\ metricsFile[Len(metricsFile)] = run.metrics
          /\ pc # "idle" =>
                /\ fx.file_ops = <<>>
                /\ Len(metricsFile) = run.metrics_at_load
                /\ stateFile = run.file_at_load)
    /\ [][/\ \A n \in 1..Len(metricsFile) :
               /\ n <= Len(metricsFile')
               /\ metricsFile'[n] = metricsFile[n]
          /\ metricsFile' # metricsFile =>
               /\ Len(metricsFile') = Len(metricsFile) + 1
               /\ run'.status = "returned"
               /\ metricsFile'[Len(metricsFile')] = run'.metrics]_vars

\* Three runs have returned with different metrics: the log holds their
\* three records, the last one that of the run that has just returned.
C33_Witness ==
    /\ Returned
    /\ pc = "idle"
    /\ Len(metricsFile) = 3
    /\ metricsFile[1].publish_count # metricsFile[2].publish_count
    /\ metricsFile[3] = run.metrics
    /\ metricsFile[3] # metricsFile[2]

\* ---------------------------------------------------------------- C34
\* The verticals of the run whose flag rate is at the disable rate.
RateHit == {v \in DOMAIN run.per_vertical : policy_rate_hit(run.per_vertical[v])}

\* The candidates of a vertical that are neither duplicates nor blocked.
Passing(v) ==
    run.per_vertical[v].candidate_count - run.per_vertical[v].duplicate_count
      - run.per_vertical[v].blocked_count

\* C34: a vertical whose flag rate reaches the disable rate in a run was
\* active in that run and has a brief for every candidate that passed (up
\* to its quota); when the run is a production run whose deployment
\* succeeded, each of these briefs has a row dated by the run in the saved
\* published history; the vertical is in the saved disabled_verticals and
\* in the active verticals of no later run.
C34_DisabledAfterDeploy ==
    /\ (Returned /\ pc = "idle") =>
          \A v \in RateHit :
              /\ v \in Range(run.active_verticals)
              /\ v \notin Range(run.loaded.disabled_verticals)
              /\ Cardinality(BriefsOf(v)) = Min(Passing(v), run.quotas[v])
              /\ (run.mode = "production" /\ run.published_rows # <<>>) =>
                    \A i \in BriefsOf(v) :
                        \E k \in 1..Len(Saved.published) :
                            /\ Saved.published[k].dedupe_hash =
                                  run.all_generated[i].topic.dedupe_hash
                            /\ Saved.published[k].published_at = run.now
                            /\ Saved.published[k].vertical = v
              /\ v \in Range(Saved.disabled_verticals)
    /\ \A n \in 1..Len(log) :
          \A v \in log[n].policy :
              /\ v \in log[n].active
              /\ \A m \in 1..Len(log) : m > n => v \notin log[m].active

\* The finance vertical reached the disable rate in a production run that
\* published its briefs, the rows are in the state file, and the next run
\* has returned without processing it.
C34_Witness ==
    \E n \in 1..Len(log) :
        /\ n < Len(log)
        /\ VERTICAL_FINANCE \in log[n].policy
        /\ VERTICAL_FINANCE \in log[n].published
        /\ VERTICAL_FINANCE \notin log[n + 1].active
        /\ log[n + 1].active # {}
        /\ \E k \in 1..Len(FileRows(stateFile)) :
              /\ FileRows(stateFile)[k].vertical = VERTICAL_FINANCE
              /\ FileRows(stateFile)[k].published_at = n

\* ---------------------------------------------------------------- C35
\* C35: from the default state, after every run each deploy-failure counter
\* of the state file is between 0 and DEPLOY_FAILURE_DISABLE_COUNT, and a
\* vertical whose counter is at that count is in disabled_verticals.
C35_CounterBounded ==
    \A v \in Verticals :
        /\ FileFailures(stateFile)[v] >= 0
        /\ FileFailures(stateFile)[v] <= DEPLOY_FAILURE_DISABLE_COUNT
        /\ FileFailures(stateFile)[v] = DEPLOY_FAILURE_DISABLE_COUNT =>
              v \in FileDisabled(stateFile)

\* A run requested for a vertical whose counter is at the disable count has
\* returned: the counter is still at the count, and another vertical has a
\* counter below it and is not disabled.
C35_Witness ==
    /\ Returned
    /\ pc = "idle"
    /\ run.vertical = VERTICAL_FINANCE
    /\ run.mode = "production"
    /\ run.loaded.vertical_deploy_failures[VERTICAL_FINANCE] = DEPLOY_FAILURE_DISABLE_COUNT
    /\ FileFailures(stateFile)[VERTICAL_FINANCE] = DEPLOY_FAILURE_DISABLE_COUNT
    /\ \E w \in Verticals :
          /\ FileFailures(stateFile)[w] \in 1..(DEPLOY_FAILURE_DISABLE_COUNT - 1)
          /\ w \notin FileDisabled(stateFile)

\* ---------------------------------------------------------------- C36
\* The highest indexed_rate of a run that publishes DEFAULT_PUBLISH_LIMIT
\* briefs: 0.26 + 0.007 * 12, in 1/10000.
FloorCeiling == 2600 + 70 * DEFAULT_PUBLISH_LIMIT

\* C36: from the default state, with no max_publish argument, every run
\* publishes at most 12 briefs and records metrics and a daily entry with
\* indexed_rate at most 0.344, below INDEXED_RATE_MIN, as the estimate is
\* for every publish count up to 12 and every duplicate count; no run
\* returns a promotion and the persisted publish_limit stays 12.
C36_NeverPromoted ==
    /\ FloorCeiling < INDEXED_RATE_MIN
    /\ \A p \in 0..DEFAULT_PUBLISH_LIMIT, d \in 0..run.candidate_count :
          estimate_indexed_rate(run.candidate_count, p, d, run.policy_flag_count)
            <= FloorCeiling
    /\ \A n \in 1..Len(metricsFile) :
          /\ metricsFile[n].publish_count <= DEFAULT_PUBLISH_LIMIT
          /\ metricsFile[n].indexed_rate <= FloorCeiling
    /\ stateFile # <<>> =>
          /\ Saved.publish_limit = DEFAULT_PUBLISH_LIMIT
          /\ \A i \in 1..Len(Saved.daily_history) :
                /\ Saved.daily_history[i].publish_count <= DEFAULT_PUBLISH_LIMIT
                /\ Saved.daily_history[i].indexed_rate <= FloorCeiling
    /\ run.scaled_to = <<>>
    /\ run.publish_limit \in {0, DEFAULT_PUBLISH_LIMIT}

\* The last SCALE_DAYS daily entries are of runs without a duplicate or a
\* flag that published 12 briefs each, at indexed_rate 0.344, and the limit
\* is 12.
C36_Witness ==
    /\ Returned
    /\ pc = "idle"
    /\ Len(Saved.daily_history) >= SCALE_DAYS
    /\ \A i \in 1..Len(Saved.daily_history) :
          i > Len(Saved.daily_history) - SCALE_DAYS =>
            /\ Saved.daily_history[i].duplicate_rate = 0
            /\ Saved.daily_history[i].policy_flag_rate = 0
            /\ Saved.daily_history[i].publish_count = DEFAULT_PUBLISH_LIMIT
            /\ Saved.daily_history[i].indexed_rate = FloorCeiling
    /\ Saved.publish_limit = DEFAULT_PUBLISH_LIMIT

\* ---------------------------------------------------------------- C37
PathsOf(rows) == {rows[i].path : i \in 1..Len(rows)}

\* The rows of the run's merge: the loaded rows whose path no new row has,
\* and the new rows.
MergedCount == Cardinality(PathsOf(run.loaded.published) \cup PathsOf(run.published_rows))

DatesAt(rows, paths) == {rows[i].published_at : i \in {j \in 1..Len(rows) : rows[j].path \in paths}}

\* C37: after a production run whose deployment succeeded and whose merged
\* history has more than MAX_PUBLISHED_HISTORY rows, the saved published
\* list has exactly MAX_PUBLISHED_HISTORY rows, newest first, each a loaded
\* or a new row, and no dropped row is older than a saved one: the rows
\* dropped are the newest, those of this run first.
C37_KeepsOldest ==
    (Returned /\ pc = "idle" /\ run.mode = "production" /\ run.published_rows # <<>>) =>
        \E saved \in {PathsOf(Saved.published)} :
        \E dropped \in {(PathsOf(run.loaded.published) \cup PathsOf(run.published_rows))
                           \ saved} :
            /\ saved \subseteq PathsOf(run.loaded.published) \cup PathsOf(run.published_rows)
            /\ Cardinality(saved) = Len(Saved.published)
            /\ Len(Saved.published) = Min(MergedCount, MAX_PUBLISHED_HISTORY)
            /\ \A i \in 1..(Len(Saved.published) - 1) :
                  Saved.published[i].published_at >= Saved.published[i + 1].published_at
            /\ \A d \in DatesAt(run.loaded.published, dropped)
                            \cup DatesAt(run.published_rows, dropped) :
                  d >= Saved.published[1].published_at
            /\ MergedCount > MAX_PUBLISHED_HISTORY =>
                  PathsOf(run.published_rows) \cap dropped # {}

\* A production run published three rows onto a history one short of the
\* cap; the saved list holds the cap, and two of the three new rows are not
\* in it.
C37_Witness ==
    /\ Returned
    /\ pc = "idle"
    /\ run.mode = "production"
    /\ Len(run.published_rows) = 3
    /\ Len(run.loaded.published) = MAX_PUBLISHED_HISTORY - 1
    /\ Len(Saved.published) = MAX_PUBLISHED_HISTORY
    /\ Cardinality(PathsOf(run.published_rows) \ PathsOf(Saved.published)) = 2

\* ---------------------------------------------------------------- C38
\* The ledger and the usage map of the state file the run loaded.
LoadedLedger == run.file_at_load[1].budget[1]
LoadedUsage == run.file_at_load[1].budget_usage
DroppedMonths ==
    (DOMAIN LoadedUsage \cup {MonthOf(run.now)}) \ DOMAIN Saved.budget_usage

\* C38: a run in a month that is not the month of the ledger it loaded
\* starts from spent 0: its first brief is served by the rich engine at the
\* requested tier when that was requested, whatever the ledger had spent,
\* and the saved spent is the cost of this run alone; a run in the month of
\* the ledger saves the ledger's spent plus its own costs, never less than
\* the ledger had; the saved ledger is of the run's month; budget_usage
\* holds at most BUDGET_USAGE_MONTHS months, the run's spent under its
\* month when it is kept, the other months as loaded, and every month
\* dropped is earlier than every month kept.
C38_MonthlyLedger ==
    (Returned /\ pc = "idle") =>
        /\ Saved.budget[1].month = MonthOf(run.now)
        /\ LoadedLedger.month # MonthOf(run.now) =>
              /\ Saved.budget[1].spent_krw = SumOver(RichCosts, DOMAIN RichCosts)
              /\ run.generation_engine_requested = "gemini" =>
                    /\ run.all_generated # <<>>
                    /\ ChoseRich(run.all_generated[1].payload)
                    /\ run.all_generated[1].payload.quality_tier =
                          run.quality_tier_requested
        /\ LoadedLedger.month = MonthOf(run.now) =>
              /\ Saved.budget[1].spent_krw =
                    LoadedLedger.spent_krw + SumOver(RichCosts, DOMAIN RichCosts)
              /\ Saved.budget[1].spent_krw >= LoadedLedger.spent_krw
        /\ Cardinality(DOMAIN Saved.budget_usage) <= BUDGET_USAGE_MONTHS
        /\ Cardinality(DOMAIN Saved.budget_usage) =
              Min(BUDGET_USAGE_MONTHS,
                  Cardinality(DOMAIN LoadedUsage \cup {MonthOf(run.now)}))
        /\ \A k \in DOMAIN Saved.budget_usage :
              /\ k \in DOMAIN LoadedUsage \cup {MonthOf(run.now)}
              /\ Saved.budget_usage[k] =
                    IF k = MonthOf(run.now) THEN Saved.budget[1].spent_krw
                    ELSE LoadedUsage[k]
              /\ \A d \in DroppedMonths : d < k

\* The ledger had spent its whole limit; a run of the next month is served
\* by the rich engine at the premium tier, saves only its own cost, and its
\* month is the 25th of the usage map: the earliest month is dropped.
C38_Witness ==
    /\ Returned
    /\ pc = "idle"
    /\ LoadedLedger.month # MonthOf(run.now)
    /\ LoadedLedger.spent_krw >= LoadedLedger.limit_krw * 100
    /\ run.generation_engine_requested = "gemini"
    /\ run.all_generated[1].payload.generation_engine = "gemini"
    /\ run.all_generated[1].payload.quality_tier = "premium"
    /\ Saved.budget[1].spent_krw = run.all_generated[1].payload.generation_cost_krw
    /\ Cardinality(DOMAIN LoadedUsage) = BUDGET_USAGE_MONTHS
    /\ DroppedMonths = {1 - BUDGET_USAGE_MONTHS}

=============================================================================
